---- MODULE Spec2Model ----
(***************************************************************************)
(* State-machine model of the DutchRentScope crawler: the SCD-2 snapshot   *)
(* store (store/funda_postgre.py), the active-listings queue (db.py) and   *)
(* the detail pipeline of the crawler (platforms/funda/core.py).           *)
(*                                                                         *)
(* Conventions.  An optional value (Python None / SQL NULL) is a sequence  *)
(* of length 0 or 1: None == <<>>, Some(v) == <<v>>.  A text value is the  *)
(* sequence of its characters, so that ILIKE is computed on the text.      *)
(* Time is a counter; every transaction begins at a strictly later time    *)
(* than the one before it (NOW() is the transaction's start time).         *)
(***************************************************************************)
EXTENDS Integers, Sequences, FiniteSets, TLC

VARIABLES
    listings,       \* {offering}_listings: listing_id -> row
    snapshots,      \* {offering}_listing_snapshots: sequence of rows, snapshot_id = index
    active,         \* active_{offering}_listings: listing_id -> next_update_ts
    now,            \* the database clock
    call,           \* the last call made: operation, arguments, result
    pre,            \* the tables as they were when the last call began
    prevCall,       \* the call made before the last one
    tx,             \* concurrent upsert_listing calls: writer -> its transaction
    rowlock,        \* listings row locks: listing_id -> the writer holding it, or 0
    uncommitted,    \* snapshot_ids inserted by transactions that have not committed
    claim,          \* concurrent get_listings_for_update calls: worker -> its statement
    qlock,          \* queue row locks: listing_id -> the worker holding it, or 0
    crawl_pc,       \* where _run_detail_pipeline stands
    page_count,     \* pages the listing generator has yielded
    page_listings,  \* the page being processed: the ids of its properties
    prop_idx,       \* the next property of the page
    processed_listing_ids,  \* FundaCrawler.processed_listing_ids
    detail_references,      \* the house ids of the references built for this page
    batch_start,    \* i of the batch loop of _get_and_store_detailed_info
    started,        \* house ids whose fetch task was started, in order
    dropped,        \* ids skipped as duplicates
    detail_list,    \* the references handed to _get_and_store_detailed_info
    fetch_pc,       \* where _get_and_store_detailed_info stands
    batch_i,        \* i of its batch loop
    tasks,          \* reference index -> the state of its _fetch_parse_and_store_detail task
    semaphore,      \* FundaCrawler.semaphore: the permits left
    cookie_update_attempts, \* FundaCrawler.cookie_update_attempts
    snapshots_stored,       \* the counters of the summary report
    error_html_saved,
    ip_block_count,
    parsing_failures,
    tombstones_created,
    cookie_data,    \* FundaCookieManager._cookie_data
    error_html,     \* data/error_html: the house ids whose HTML was archived
    failure_reports,        \* calls of cookie_manager.report_failure so far
    forced_refreshes,       \* calls of cookie_manager.get_cookie(force_refresh=True) so far
    delays,         \* inter-batch sleeps so far
    clock,          \* time.time() of the crawler's process
    cookie_file,    \* data/funda_cookie.json: what _save_cookie wrote last
    callers,        \* the coroutines that use the cookie manager: caller -> its call
    launches,       \* browsers launched by _fetch_new_cookie so far
    issued,         \* credentials handed out by the site so far
    cookie_call,    \* the last call of the cookie manager that came to its end
    start_page,     \* config.START_PAGE
    end_page,       \* config.END_PAGE, or None
    total_found,    \* the listings that match the search on the site
    gen_pc,         \* where get_house_info_generator stands
    page_num,       \* page_num of its for loop
    total_pages,    \* total_pages, once the first page has told the total
    fetches,        \* the listing-page requests so far: page, offset, outcome, yield
    crawl_type,     \* config.FUNDA_CRAWL_TYPE
    run_pc,         \* where FundaCrawler.start stands
    reports,        \* summary reports printed so far
    raw_fields,     \* the raw values stored in an item: field -> value, or None
    read,           \* the last read of a cleaned field: the field and what came of it
    req_pc,         \* where the call of get_house_detail_info stands
    attempt_number, \* the attempt of request() that is running or was last made
    attempt_log,    \* what the attempts of the running call came to, in order
    waited,         \* seconds the running call has spent in wait_fixed
    request_log,    \* the calls of get_house_detail_info that have returned
    client_cookie   \* headers["Cookie"] of the playwright client, None before it is made

dbvars == <<listings, snapshots, active, now>>
histvars == <<call, pre, prevCall>>
txvars == <<tx, rowlock, uncommitted>>
claimvars == <<claim, qlock>>
crawlvars == <<crawl_pc, page_count, page_listings, prop_idx, processed_listing_ids,
               detail_references, batch_start, started, dropped>>
statvars == <<snapshots_stored, error_html_saved, ip_block_count, parsing_failures,
              tombstones_created>>
cookievars == <<cookie_update_attempts, cookie_data, failure_reports, forced_refreshes>>
mgrvars == <<clock, cookie_file, callers, launches, issued, cookie_call>>
pagevars == <<start_page, end_page, total_found, gen_pc, page_num, total_pages, fetches>>
runvars == <<crawl_type, run_pc, reports>>
itemvars == <<raw_fields, read>>
reqvars == <<req_pc, attempt_number, attempt_log, waited, request_log>>
clientvars == <<client_cookie>>
sidevars == <<mgrvars, pagevars, runvars, itemvars, reqvars, clientvars>>
fetchvars == <<detail_list, fetch_pc, batch_i, tasks, semaphore, error_html, delays,
               statvars, cookievars>>
vars == <<listings, snapshots, active, now, call, pre, prevCall,
          tx, rowlock, uncommitted, claim, qlock,
          crawl_pc, page_count, page_listings, prop_idx, processed_listing_ids,
          detail_references, batch_start, started, dropped,
          detail_list, fetch_pc, batch_i, tasks, semaphore, error_html, delays,
          snapshots_stored, error_html_saved, ip_block_count, parsing_failures,
          tombstones_created,
          cookie_update_attempts, cookie_data, failure_reports, forced_refreshes,
          sidevars>>

\* what a sequential store call, a writer's step, a worker's step and a step of the
\* crawler leave alone
outsideStore == <<txvars, claimvars, crawlvars, fetchvars, sidevars>>
outsideTx == <<histvars, claimvars, crawlvars, fetchvars, sidevars>>
outsideClaim == <<histvars, txvars, crawlvars, fetchvars, sidevars>>
outsideCrawl == <<dbvars, histvars, txvars, claimvars, fetchvars, sidevars>>
\* a step of the detail stage that makes no store call, and one that makes one
outsideFetch == <<dbvars, histvars, txvars, claimvars, crawlvars, sidevars>>
outsideFetchStore == <<txvars, claimvars, crawlvars, sidevars>>
\* a step of the cookie manager's own callers
outsideCookie == <<dbvars, histvars, txvars, claimvars, crawlvars,
                   detail_list, fetch_pc, batch_i, tasks, semaphore, error_html, delays,
                   statvars, cookie_update_attempts, failure_reports, forced_refreshes,
                   pagevars, runvars, itemvars, reqvars, clientvars>>
\* a step of the listing generator
outsidePages == <<dbvars, histvars, txvars, claimvars, crawlvars, fetchvars, mgrvars,
                  runvars, itemvars, reqvars, clientvars>>
\* a step of FundaCrawler.start itself
outsideRun == <<dbvars, histvars, txvars, claimvars, crawlvars, mgrvars, pagevars,
                itemvars, reqvars, clientvars>>
\* a read of a field of an item
outsideItem == <<dbvars, histvars, txvars, claimvars, crawlvars, fetchvars, mgrvars,
                 pagevars, runvars, reqvars, clientvars>>
\* a step of a transport request
outsideRequest == <<dbvars, histvars, txvars, claimvars, crawlvars, fetchvars, mgrvars,
                    pagevars, runvars, itemvars, clientvars>>

----------------------------------------------------------------------------
(* Bounds *)

MaxListingId == 2
MaxCalls == 3
MaxClock == 4
MaxLimit == 2
NumWriters == 2
MaxTxCalls == 3
NumWorkers == 2
MaxPages == 2
MaxPageLen == 2
BatchSize == 2
MaxRefs == 3
MAX_CONCURRENCY_NUM == 1
MAX_COOKIE_UPDATE_LIMIT == 1
NumCallers == 2
MaxTime == 2
MaxLaunches == 2
cookie_lifetime == 1
MaxTotal == 31
MaxStartPage == 2
MaxEndPage == 4
MaxRequests == 3

ListingIds == 1..MaxListingId

----------------------------------------------------------------------------
(* Values *)

None == <<>>
Some(v) == <<v>>
IsNone(x) == x = <<>>
Val(x) == x[1]

\* dict.get(k)
Get(d, k) == IF k \in DOMAIN d THEN d[k] ELSE None

Str_Available == <<"A","v","a","i","l","a","b","l","e">>
Str_Beschikbaar == <<"B","e","s","c","h","i","k","b","a","a","r">>
Str_Sold == <<"S","o","l","d">>
Str_Delft == <<"D","e","l","f","t">>

Pat_available == <<"a","v","a","i","l","a","b","l","e">>
Pat_beschikbaar == <<"b","e","s","c","h","i","k","b","a","a","r">>

Lower(c) ==
    CASE c = "A" -> "a"
      [] c = "B" -> "b"
      [] c = "S" -> "s"
      [] OTHER -> c

\* text ILIKE '%pat%': pat occurs in text, letter case ignored
ILikeContains(text, pat) ==
    \E i \in 1..(Len(text) - Len(pat) + 1) :
        \A j \in 1..Len(pat) : Lower(text[i + j - 1]) = pat[j]

----------------------------------------------------------------------------
(* upsert_listing: the record handed in, and what is computed from it       *)

\* zlib.compress + base64 of a description: a deterministic, injective encoding
CompressDescription(d) == <<"zlib+b64", d>>

\* volatile_data after the price consolidation (rent_price first, else asking_price,
\* else the record's own price)
ConsolidatedPrice(item) ==
    IF ~IsNone(item.rent_price) THEN item.rent_price
    ELSE IF ~IsNone(item.asking_price) THEN item.asking_price
    ELSE item.price

\* the remaining volatile fields, serialised into the JSONB column.  asking_price
\* is popped only when rent_price is None, so it stays in the blob otherwise.
\* crawl_date is one of LISTING_VOLATILE_FIELDS: a record that has the key carries
\* it into the blob.
DetailsJsonb(item) ==
    [asking_price |-> IF ~IsNone(item.rent_price) THEN item.asking_price ELSE None,
     description |-> IF ~IsNone(item.description) /\ Val(item.description) # <<>>
                     THEN Some(CompressDescription(Val(item.description)))
                     ELSE item.description,
     description_is_compressed |->
         ~IsNone(item.description) /\ Val(item.description) # <<>>,
     crawl_date |-> Get(item, "crawl_date")]

CoreVolatileData(item) ==
    [status |-> item.status,
     price |-> ConsolidatedPrice(item),
     details_jsonb |-> DetailsJsonb(item)]

\* SHA-256 over the sorted-key serialisation: a function of the three values,
\* taken to be collision free
calculate_row_hash(data) == <<"sha256", data.status, data.price, data.details_jsonb>>

RowHash(item) == calculate_row_hash(CoreVolatileData(item))

\* variant: ORDER BY snapshot_ts ASC (the oldest row)
OldestRows(snaps, id) ==
    {i \in 1..Len(snaps) :
        /\ snaps[i].listing_id = id
        /\ \A j \in 1..Len(snaps) :
              snaps[j].listing_id = id => snaps[i].snapshot_ts <= snaps[j].snapshot_ts}

\* SELECT row_hash FROM snapshots WHERE listing_id = $1 ORDER BY snapshot_ts DESC LIMIT 1
\* (the set of rows the query may return: rows with the greatest snapshot_ts)
LatestRows(snaps, id) ==
    {i \in 1..Len(snaps) :
        /\ snaps[i].listing_id = id
        /\ \A j \in 1..Len(snaps) :
              snaps[j].listing_id = id => snaps[j].snapshot_ts <= snaps[i].snapshot_ts}

\* variant: the WHERE listing_id = $1 is missing (the latest row of any listing)
LatestHashesOfAnyListing(snaps, id) ==
    IF snaps = <<>> THEN {None}
    ELSE {Some(snaps[i].row_hash) : i \in
            {i \in 1..Len(snaps) :
                \A j \in 1..Len(snaps) : snaps[j].snapshot_ts <= snaps[i].snapshot_ts}}

LatestHashes(snaps, id) ==
    IF LatestRows(snaps, id) = {} THEN {None}
    ELSE {Some(snaps[i].row_hash) : i \in LatestRows(snaps, id)}

\* static_data: the fields of LISTING_STATIC_FIELDS the record has; the model
\* follows one of them, address_city
StaticData(item) == Get(item, "address_city")

\* variant: ON CONFLICT (listing_id) DO UPDATE SET the static columns as well
UpsertOverwritingStatic(ls, id, static_data, ts) ==
    IF id \in DOMAIN ls
    THEN [ls EXCEPT ![id].last_seen_at = ts, ![id].address_city = static_data]
    ELSE ls @@ (id :> [current_snapshot_id |-> 0, last_seen_at |-> ts,
                       address_city |-> static_data])

\* INSERT INTO listings (listing_id, {columns}) VALUES (...)
\* ON CONFLICT (listing_id) DO UPDATE SET last_seen_at = NOW()
UpsertListingRow(ls, id, static_data, ts) ==
    IF id \in DOMAIN ls
    THEN [ls EXCEPT ![id].last_seen_at = ts]
    ELSE ls @@ (id :> [current_snapshot_id |-> 0, last_seen_at |-> ts,
                       address_city |-> static_data])

\* INSERT INTO snapshots (listing_id, row_hash, status, price, details_jsonb);
\* snapshot_id is the row's place in the table (a serial) and snapshot_ts is left to
\* its default, the time of the transaction
NewSnapshotRow(id, item, ts) ==
    [listing_id |-> id,
     row_hash |-> RowHash(item),
     status |-> CoreVolatileData(item).status,
     price |-> CoreVolatileData(item).price,
     details_jsonb |-> CoreVolatileData(item).details_jsonb,
     snapshot_ts |-> ts]

\* variant: the latest snapshot of the listing is updated in place
OverwriteLatestSnapshot(snaps, row) ==
    IF LatestRows(snaps, row.listing_id) = {} THEN Append(snaps, row)
    ELSE [snaps EXCEPT ![CHOOSE i \in LatestRows(snaps, row.listing_id) : TRUE] = row]

\* INSERT INTO snapshots ... RETURNING snapshot_id: a new row, nothing else touched
InsertSnapshot(snaps, row) == Append(snaps, row)

\* variant: only last_seen_at is set
RepointLastSeenOnly(ls, id, sid, ts) ==
    IF id \in DOMAIN ls THEN [ls EXCEPT ![id].last_seen_at = ts] ELSE ls

\* UPDATE listings SET current_snapshot_id = $1, last_seen_at = NOW() WHERE listing_id = $2
RepointListing(ls, id, sid, ts) ==
    IF id \in DOMAIN ls
    THEN [ls EXCEPT ![id].current_snapshot_id = sid, ![id].last_seen_at = ts]
    ELSE ls

\* UPDATE listings SET last_seen_at = NOW() WHERE listing_id = $1
TouchLastSeen(ls, id, ts) ==
    IF id \in DOMAIN ls THEN [ls EXCEPT ![id].last_seen_at = ts] ELSE ls

\* variant: the comparison is missing, every call writes
AlwaysNeedsSnapshot(row_hash, latest_hash) == TRUE

\* Step 2: the hash decides whether a snapshot is written
NeedsSnapshot(row_hash, latest_hash) == Some(row_hash) # latest_hash

Tables == [listings |-> listings, snapshots |-> snapshots, active |-> active, now |-> now]

\* op: the operation; listing_id, item, arg: its arguments; ts: the time its
\* transaction began; ret: what it returned
CallRecord(op, id, item, arg, ts, ret) ==
    [op |-> op, listing_id |-> id, item |-> item, arg |-> arg, ts |-> ts, ret |-> ret,
     nsnap_before |-> Len(snapshots)]

NoCall ==
    [op |-> "none", listing_id |-> 0, item |-> <<>>, arg |-> 0, ts |-> 0, ret |-> <<>>,
     nsnap_before |-> 0]

Record(op, id, item, arg, ts, ret) ==
    /\ call' = CallRecord(op, id, item, arg, ts, ret)
    /\ pre' = Tables
    /\ prevCall' = call

\* upsert_listing(listing_item, offering_type), one whole call in its transaction:
\* what it does to the tables
UpsertListingTx(item) ==
    /\ ~IsNone(item.listing_id)
    /\ LET id == Val(item.listing_id)
           ts == now + 1
       IN /\ now' = ts
          /\ \E latest_hash \in LatestHashes(snapshots, id) :
                IF NeedsSnapshot(RowHash(item), latest_hash)
                THEN /\ snapshots' = InsertSnapshot(snapshots, NewSnapshotRow(id, item, ts))
                     /\ listings' =
                           RepointListing(UpsertListingRow(listings, id, StaticData(item), ts),
                                          id, Len(snapshots) + 1, ts)
                     /\ Record("upsert", id, item, 0, ts, Some(Len(snapshots) + 1))
                ELSE /\ snapshots' = snapshots
                     /\ listings' = TouchLastSeen(listings, id, ts)
                     /\ Record("upsert", id, item, 0, ts, None)
          /\ active' = active

\* a call of upsert_listing made on its own
UpsertListing(item) == UpsertListingTx(item) /\ UNCHANGED outsideStore

\* upsert_listing with no listing_id: ValueError before any statement is sent
UpsertListingNoId(item) ==
    /\ IsNone(item.listing_id)
    /\ call.op # "upsert_raised"
    /\ Record("upsert_raised", 0, item, 0, now, None)
    /\ UNCHANGED <<dbvars, outsideStore>>

----------------------------------------------------------------------------
(* The sequential store: upsert_listing calls one after another *)

StoreStatuses == {Some(Str_Available), Some(Str_Sold)}
StorePrices == {None, Some(1250)}
StoreDescriptions == {None, Some(<<"n","e","w">>)}

StoreRecords ==
    {item \in [listing_id : {Some(i) : i \in ListingIds} \cup {None},
               status : StoreStatuses,
               rent_price : StorePrices,
               asking_price : {None},
               price : {None},
               description : StoreDescriptions] :
        IsNone(item.rent_price) \/ IsNone(item.description)}

StoreItems == {item \in StoreRecords : ~IsNone(item.listing_id)}

\* a record that carries no id
NoIdItems ==
    {item \in StoreRecords :
        /\ IsNone(item.listing_id) /\ IsNone(item.rent_price) /\ IsNone(item.description)
        /\ item.status = Some(Str_Available)}

\* the tables as the schema creates them: listing_id is the key of the listings and
\* of the queue table
InitDb ==
    /\ listings = <<>>
    /\ snapshots = <<>>
    /\ active = <<>>
    /\ now = 0

InitHist ==
    /\ call = NoCall
    /\ pre = [listings |-> <<>>, snapshots |-> <<>>, active |-> <<>>, now |-> 0]
    /\ prevCall = NoCall

Writers == 1..NumWriters
Workers == 1..NumWorkers

IdleTx ==
    [pc |-> "idle", item |-> <<>>, listing_id |-> 0, ts |-> 0, row_hash |-> <<>>,
     new_snapshot_id |-> 0, overlapped |-> {}]

IdleClaim ==
    [pc |-> "idle", limit |-> 0, ts |-> 0, seen |-> <<>>, considered |-> {},
     locked |-> {}, ret |-> {}, overlapped |-> {}]

InitNoTx ==
    /\ tx = [w \in Writers |-> IdleTx]
    /\ rowlock = [id \in ListingIds |-> 0]
    /\ uncommitted = {}

InitNoClaim ==
    /\ claim = [w \in Workers |-> IdleClaim]
    /\ qlock = [id \in ListingIds |-> 0]

\* FundaCrawler.__init__
InitCrawler ==
    /\ crawl_pc = "next_page"
    /\ page_count = 0
    /\ page_listings = <<>>
    /\ prop_idx = 1
    /\ processed_listing_ids = {}
    /\ detail_references = <<>>
    /\ batch_start = 0
    /\ started = <<>>
    /\ dropped = {}

\* no call of _get_and_store_detailed_info is under way
InitNoFetch ==
    /\ detail_list = <<>>
    /\ fetch_pc = "idle"
    /\ batch_i = 0
    /\ tasks = <<>>
    /\ semaphore = MAX_CONCURRENCY_NUM
    /\ error_html = {}
    /\ delays = 0
    /\ snapshots_stored = 0
    /\ error_html_saved = 0
    /\ ip_block_count = 0
    /\ parsing_failures = 0
    /\ tombstones_created = 0
    /\ cookie_update_attempts = 0
    /\ cookie_data = None
    /\ failure_reports = 0
    /\ forced_refreshes = 0

\* no call of the cookie manager has been made
NoCookieCall ==
    [op |-> "none", force |-> FALSE, valid |-> FALSE, pre |-> None, t |-> 0,
     result |-> None]

IdleCaller == [pc |-> "idle", result |-> None]

Callers == 1..NumCallers

InitNoManager ==
    /\ clock = 0
    /\ cookie_file = None
    /\ callers = [c \in Callers |-> IdleCaller]
    /\ launches = 0
    /\ issued = 0
    /\ cookie_call = NoCookieCall

\* the listing generator has not been started
InitNoPages ==
    /\ start_page = 1
    /\ end_page = None
    /\ total_found = 0
    /\ gen_pc = "idle"
    /\ page_num = 0
    /\ total_pages = None
    /\ fetches = <<>>

\* FundaCrawler.start has not been called
InitNoRun ==
    /\ crawl_type = "detail"
    /\ run_pc = "idle"
    /\ reports = 0

\* no item is being read
NoRead == [field |-> "", raised |-> FALSE, number |-> 0, text |-> <<>>]

InitNoItem ==
    /\ raw_fields = <<>>
    /\ read = NoRead

\* no transport request is being made
InitNoRequest ==
    /\ req_pc = "idle"
    /\ attempt_number = 0
    /\ attempt_log = <<>>
    /\ waited = 0
    /\ request_log = <<>>

\* the playwright client has not been made
InitNoClient == client_cookie = None

InitNoSide ==
    InitNoManager /\ InitNoPages /\ InitNoRun /\ InitNoItem /\ InitNoRequest
    /\ InitNoClient

InitStore ==
    InitDb /\ InitHist /\ InitNoTx /\ InitNoClaim /\ InitCrawler /\ InitNoFetch /\ InitNoSide

\* a call of the store, while the run is within its bound
StoreUpsert(item) == now < MaxCalls /\ UpsertListing(item)

NextStore ==
    \/ \E item \in StoreItems : StoreUpsert(item)
    \/ \E item \in NoIdItems : UpsertListingNoId(item)

SpecStore == InitStore /\ [][NextStore]_vars

----------------------------------------------------------------------------
(* The active-listings queue: manage_active_listings, get_listings_for_update *)

Restrict(f, S) == [x \in S |-> f[x]]

\* WHERE (s.status ILIKE '%available%' OR s.status ILIKE '%beschikbaar%'); a NULL
\* status makes the condition NULL, and the row is not selected
AddWhere(status) ==
    /\ ~IsNone(status)
    /\ \/ ILikeContains(Val(status), Pat_available)
       \/ ILikeContains(Val(status), Pat_beschikbaar)

\* variant: the status is not looked at, every row with a status is removed
RemoveWhereAnyStatus(status) == ~IsNone(status)

\* WHERE s.status IS NOT NULL AND s.status NOT ILIKE '%available%'
\*   AND s.status NOT ILIKE '%beschikbaar%'
RemoveWhere(status) ==
    /\ ~IsNone(status)
    /\ ~ILikeContains(Val(status), Pat_available)
    /\ ~ILikeContains(Val(status), Pat_beschikbaar)

\* FROM listings l JOIN snapshots s ON l.current_snapshot_id = s.snapshot_id
JoinedListings(ls, snaps) ==
    {id \in DOMAIN ls :
        ls[id].current_snapshot_id \in 1..Len(snaps)}

CurrentStatus(ls, snaps, id) == snaps[ls[id].current_snapshot_id].status

\* INSERT INTO active (listing_id, next_update_ts)
\* SELECT l.listing_id, NOW() + INTERVAL '{update_interval_days} days' ...
\*   AND l.listing_id NOT IN (SELECT listing_id FROM active)
AddSql(ls, snaps, act, ts, update_interval_days) ==
    LET added == {id \in JoinedListings(ls, snaps) :
                     /\ AddWhere(CurrentStatus(ls, snaps, id))
                     /\ id \notin DOMAIN act}
    IN [id \in DOMAIN act \cup added |->
           IF id \in added THEN ts + update_interval_days ELSE act[id]]

\* DELETE FROM active WHERE listing_id IN (SELECT l.listing_id ... WHERE ...)
RemoveSql(ls, snaps, act) ==
    Restrict(act, {id \in DOMAIN act :
                      ~(/\ id \in JoinedListings(ls, snaps)
                        /\ RemoveWhere(CurrentStatus(ls, snaps, id)))})

\* manage_active_listings(offering_type, update_interval_days): both statements in
\* one transaction
ManageActiveListings(update_interval_days) ==
    LET ts == now + 1
    IN /\ now' = ts
       /\ active' = RemoveSql(listings, snapshots,
                              AddSql(listings, snapshots, active, ts, update_interval_days))
       /\ Record("manage", 0, <<>>, update_interval_days, ts, None)
       /\ UNCHANGED <<listings, snapshots, outsideStore>>

\* variant: the WHERE next_update_ts <= NOW() is missing
AllListings(act, ts) == DOMAIN act

\* SELECT listing_id FROM active WHERE next_update_ts <= NOW()
DueListings(act, ts) == {id \in DOMAIN act : act[id] <= ts}

\* ... LIMIT {limit}: any limit of the rows, all of them when there are fewer
LimitedSubsets(S, limit) ==
    {T \in SUBSET S : Cardinality(T) = IF Cardinality(S) < limit THEN Cardinality(S) ELSE limit}

\* get_listings_for_update(offering_type, limit): one statement, no other session
GetListingsForUpdate(limit) ==
    LET ts == now + 1
    IN /\ now' = ts
       /\ \E due_listings \in LimitedSubsets(DueListings(active, ts), limit) :
             /\ active' = Restrict(active, DOMAIN active \ due_listings)
             /\ Record("get", 0, <<>>, limit, ts, due_listings)
       /\ UNCHANGED <<listings, snapshots, outsideStore>>

QueueStatuses == {None, Some(Str_Available), Some(Str_Beschikbaar), Some(Str_Sold)}

QueueItems ==
    [listing_id : {Some(i) : i \in ListingIds},
     status : QueueStatuses,
     rent_price : {None},
     asking_price : {None},
     price : {None},
     description : {None}]

\* update_interval_days: one that has passed by the next call, one that has not
Intervals == {1, 3}

\* the calls of a crawl and of the batch job, while the run is within its bound
QueueUpsert(item) == now < MaxClock /\ UpsertListing(item)
QueueManage(d) == now < MaxClock /\ ManageActiveListings(d)
QueueGet(limit) == now < MaxClock /\ GetListingsForUpdate(limit)

NextQueue ==
    \/ \E item \in QueueItems : QueueUpsert(item)
    \/ \E d \in Intervals : QueueManage(d)
    \/ \E limit \in 0..MaxLimit : QueueGet(limit)

SpecQueue == InitStore /\ [][NextQueue]_vars

----------------------------------------------------------------------------
(* upsert_listing under concurrent writers.  Each call runs in its own      *)
(* READ COMMITTED transaction: a statement sees the rows committed before   *)
(* it began and the transaction's own rows; a write to a listings row       *)
(* takes the row's lock and holds it until the commit.                      *)

\* the snapshots a statement of writer w sees: rows of open transactions of other
\* writers are not visible (such a row is masked: no listing_id matches it)
VisibleSnapshots(w) ==
    [i \in 1..Len(snapshots) |->
        IF i \in uncommitted /\ tx[w].new_snapshot_id # i
        THEN [snapshots[i] EXCEPT !.listing_id = 0]
        ELSE snapshots[i]]

InTransaction(w) == tx[w].pc \notin {"idle", "done"}

\* row_hash is computed, the connection acquired and the transaction begun
TxBegin(w, item) ==
    /\ now < MaxTxCalls
    /\ tx[w].pc \in {"idle", "done"}
    /\ ~IsNone(item.listing_id)
    /\ now' = now + 1
    /\ tx' = [tx EXCEPT ![w] =
                 [pc |-> "select", item |-> item, listing_id |-> Val(item.listing_id),
                  ts |-> now + 1, row_hash |-> RowHash(item), new_snapshot_id |-> 0,
                  overlapped |-> {v \in Writers \ {w} : InTransaction(v)}]]
    /\ UNCHANGED <<listings, snapshots, active, rowlock, uncommitted, outsideTx>>

\* Step 1: SELECT row_hash ... ORDER BY snapshot_ts DESC LIMIT 1; Step 2: the branch
TxSelectLatestHash(w) ==
    /\ tx[w].pc = "select"
    /\ \E latest_hash \in LatestHashes(VisibleSnapshots(w), tx[w].listing_id) :
          tx' = [tx EXCEPT ![w].pc =
                    IF NeedsSnapshot(tx[w].row_hash, latest_hash) THEN "upsert" ELSE "touch"]
    /\ UNCHANGED <<listings, snapshots, active, now, rowlock, uncommitted, outsideTx>>

\* Step 2a: INSERT INTO listings ... ON CONFLICT DO UPDATE; waits for the row's lock
TxUpsertListingRow(w) ==
    /\ tx[w].pc = "upsert"
    /\ rowlock[tx[w].listing_id] = 0
    /\ rowlock' = [rowlock EXCEPT ![tx[w].listing_id] = w]
    /\ listings' = UpsertListingRow(listings, tx[w].listing_id, StaticData(tx[w].item),
                                    tx[w].ts)
    /\ tx' = [tx EXCEPT ![w].pc = "insert"]
    /\ UNCHANGED <<snapshots, active, now, uncommitted, outsideTx>>

\* Step 2b: INSERT INTO snapshots ... RETURNING snapshot_id
TxInsertSnapshot(w) ==
    /\ tx[w].pc = "insert"
    /\ snapshots' = InsertSnapshot(snapshots,
                                   NewSnapshotRow(tx[w].listing_id, tx[w].item, tx[w].ts))
    /\ uncommitted' = uncommitted \cup {Len(snapshots) + 1}
    /\ tx' = [tx EXCEPT ![w].pc = "repoint", ![w].new_snapshot_id = Len(snapshots) + 1]
    /\ UNCHANGED <<listings, active, now, rowlock, outsideTx>>

\* Step 2c: UPDATE listings SET current_snapshot_id = $1, last_seen_at = NOW()
TxRepoint(w) ==
    /\ tx[w].pc = "repoint"
    /\ listings' = RepointListing(listings, tx[w].listing_id, tx[w].new_snapshot_id, tx[w].ts)
    /\ tx' = [tx EXCEPT ![w].pc = "commit"]
    /\ UNCHANGED <<snapshots, active, now, rowlock, uncommitted, outsideTx>>

\* Step 3: UPDATE listings SET last_seen_at = NOW(); waits for the row's lock
TxTouchLastSeen(w) ==
    /\ tx[w].pc = "touch"
    /\ rowlock[tx[w].listing_id] = 0
    /\ rowlock' = [rowlock EXCEPT ![tx[w].listing_id] = w]
    /\ listings' = TouchLastSeen(listings, tx[w].listing_id, tx[w].ts)
    /\ tx' = [tx EXCEPT ![w].pc = "commit"]
    /\ UNCHANGED <<snapshots, active, now, uncommitted, outsideTx>>

\* the transaction block is left: COMMIT, the rows become visible, the lock is freed
TxCommit(w) ==
    /\ tx[w].pc = "commit"
    /\ uncommitted' = uncommitted \ {tx[w].new_snapshot_id}
    /\ rowlock' = [id \in ListingIds |-> IF rowlock[id] = w THEN 0 ELSE rowlock[id]]
    /\ tx' = [tx EXCEPT ![w].pc = "done",
                        ![w].overlapped = @ \cup {v \in Writers \ {w} : InTransaction(v)}]
    /\ UNCHANGED <<listings, snapshots, active, now, outsideTx>>

TxItems ==
    [listing_id : {Some(i) : i \in ListingIds},
     status : {Some(Str_Available), Some(Str_Sold)},
     rent_price : {None},
     asking_price : {None},
     price : {None},
     description : {None}]

NextUpsertConc ==
    \E w \in Writers :
        \/ \E item \in TxItems : TxBegin(w, item)
        \/ TxSelectLatestHash(w)
        \/ TxUpsertListingRow(w)
        \/ TxInsertSnapshot(w)
        \/ TxRepoint(w)
        \/ TxTouchLastSeen(w)
        \/ TxCommit(w)

SpecUpsertConc == InitStore /\ [][NextUpsertConc]_vars

----------------------------------------------------------------------------
(* get_listings_for_update under concurrent workers.  The call is one       *)
(* statement in its own transaction: the CTE reads the rows committed when  *)
(* the statement began, locks the due rows it can (FOR UPDATE SKIP LOCKED), *)
(* and the DELETE removes the locked rows; the statement's end commits.     *)

ClaimInFlight(w) == claim[w].pc = "scan"

\* the statement begins: NOW() and the rows it sees are fixed
ClaimBegin(w, limit) ==
    /\ claim[w].pc = "idle"
    /\ now' = now + 1
    /\ claim' = [claim EXCEPT ![w] =
                    [pc |-> "scan", limit |-> limit, ts |-> now + 1, seen |-> active,
                     considered |-> {}, locked |-> {}, ret |-> {},
                     overlapped |-> {v \in Workers \ {w} : ClaimInFlight(v)}]]
    /\ UNCHANGED <<listings, snapshots, active, qlock, outsideClaim>>

\* variant: no FOR UPDATE SKIP LOCKED, every row that was seen is taken
TakesAnyRow(locks, act, id) == TRUE

\* FOR UPDATE SKIP LOCKED takes a row unless another statement holds its lock, or a
\* statement that committed since has deleted it
CanLockRow(locks, act, id) == locks[id] = 0 /\ id \in DOMAIN act

\* the CTE visits one more due row: it locks the row or skips it
ClaimScanRow(w, id) ==
    /\ claim[w].pc = "scan"
    /\ Cardinality(claim[w].locked) < claim[w].limit
    /\ id \in DueListings(claim[w].seen, claim[w].ts) \ claim[w].considered
    /\ IF CanLockRow(qlock, active, id)
       THEN /\ qlock' = [qlock EXCEPT ![id] = w]
            /\ claim' = [claim EXCEPT ![w].considered = @ \cup {id},
                                      ![w].locked = @ \cup {id}]
       ELSE /\ qlock' = qlock
            /\ claim' = [claim EXCEPT ![w].considered = @ \cup {id}]
    /\ UNCHANGED <<listings, snapshots, active, now, outsideClaim>>

\* DELETE ... USING due_listings ... RETURNING a.listing_id, and the commit: the
\* locked rows are deleted and returned, the locks freed
ClaimDeleteReturning(w) ==
    /\ claim[w].pc = "scan"
    /\ \/ Cardinality(claim[w].locked) = claim[w].limit
       \/ DueListings(claim[w].seen, claim[w].ts) \subseteq claim[w].considered
    /\ active' = Restrict(active, DOMAIN active \ claim[w].locked)
    /\ qlock' = [id \in ListingIds |-> IF qlock[id] = w THEN 0 ELSE qlock[id]]
    /\ claim' = [claim EXCEPT ![w].pc = "done",
                              ![w].ret = claim[w].locked,
                              ![w].overlapped = @ \cup {v \in Workers \ {w} : ClaimInFlight(v)}]
    /\ UNCHANGED <<listings, snapshots, now, outsideClaim>>

AvailableItem(id) ==
    [listing_id |-> Some(id), status |-> Some(Str_Available), rent_price |-> None,
     asking_price |-> None, price |-> None, description |-> None]

\* a database after crawls and a run of manage_active_listings: every listing
\* with one snapshot that reads as available and a queue row that is due (0) or not
\* due during the run (MaxClock)
InitQueued ==
    /\ snapshots = [i \in ListingIds |-> NewSnapshotRow(i, AvailableItem(i), 0)]
    /\ listings = [i \in ListingIds |-> [current_snapshot_id |-> i, last_seen_at |-> 0,
                                        address_city |-> None]]
    /\ active \in [ListingIds -> {0, MaxClock}]
    /\ now = 0

InitClaimConc ==
    InitQueued /\ InitHist /\ InitNoTx /\ InitNoClaim /\ InitCrawler /\ InitNoFetch
    /\ InitNoSide

NextClaimConc ==
    \E w \in Workers :
        \/ \E limit \in 1..MaxLimit : ClaimBegin(w, limit)
        \/ \E id \in ListingIds : ClaimScanRow(w, id)
        \/ ClaimDeleteReturning(w)

SpecClaimConc == InitClaimConc /\ [][NextClaimConc]_vars

----------------------------------------------------------------------------
(* The detail-mode run: FundaCrawler._run_detail_pipeline and the batch loop *)
(* of _get_and_store_detailed_info.  A page is the sequence of the ids of    *)
(* its properties; the listing generator yields at most MaxPages pages.      *)

Pages == UNION {[1..n -> ListingIds] : n \in 0..MaxPageLen}

Min(a, b) == IF a < b THEN a ELSE b

\* async for page_listings in listing_generator: the next page; an empty page is
\* passed over
GeneratorYields(page) ==
    /\ crawl_pc = "next_page"
    /\ page_count < MaxPages
    /\ page_count' = page_count + 1
    /\ page_listings' = page
    /\ prop_idx' = 1
    /\ detail_references' = <<>>
    /\ crawl_pc' = IF page = <<>> THEN "next_page" ELSE "props"
    /\ UNCHANGED <<processed_listing_ids, batch_start, started, dropped, outsideCrawl>>

\* the generator is exhausted: the pipeline returns
GeneratorEnds ==
    /\ crawl_pc = "next_page"
    /\ crawl_pc' = "done"
    /\ UNCHANGED <<page_count, page_listings, prop_idx, processed_listing_ids,
                   detail_references, batch_start, started, dropped, outsideCrawl>>

\* variant: the membership test is missing, no property is taken for a duplicate
NeverDuplicate(id, processed) == FALSE

\* if prop.id in self.processed_listing_ids
IsDuplicate(id, processed) == id \in processed

\* one pass of "for prop in page_listings": a duplicate is logged and skipped; a new id
\* is added to processed_listing_ids and its reference appended, unless building the
\* reference raises (built = FALSE), which is logged
ProcessProp(built) ==
    /\ crawl_pc = "props"
    /\ prop_idx <= Len(page_listings)
    /\ LET id == page_listings[prop_idx]
       IN IF IsDuplicate(id, processed_listing_ids)
          THEN /\ built
               /\ dropped' = dropped \cup {id}
               /\ UNCHANGED <<processed_listing_ids, detail_references>>
          ELSE /\ processed_listing_ids' = processed_listing_ids \cup {id}
               /\ detail_references' =
                     IF built THEN Append(detail_references, id) ELSE detail_references
               /\ dropped' = dropped
    /\ prop_idx' = prop_idx + 1
    /\ UNCHANGED <<crawl_pc, page_count, page_listings, batch_start, started, outsideCrawl>>

\* the page's loop is over: if detail_references: _get_and_store_detailed_info(...)
PageProcessed ==
    /\ crawl_pc = "props"
    /\ prop_idx > Len(page_listings)
    /\ crawl_pc' = IF detail_references # <<>> THEN "details" ELSE "next_page"
    /\ batch_start' = 0
    /\ UNCHANGED <<page_count, page_listings, prop_idx, processed_listing_ids,
                   detail_references, started, dropped, outsideCrawl>>

\* one pass of "for i in range(0, len(detail_list), batch_size)": the fetch tasks of
\* detail_list[i : i + batch_size] are created and gathered
RunBatch ==
    /\ crawl_pc = "details"
    /\ batch_start < Len(detail_references)
    /\ started' = started \o SubSeq(detail_references, batch_start + 1,
                                    Min(batch_start + BatchSize, Len(detail_references)))
    /\ batch_start' = batch_start + BatchSize
    /\ UNCHANGED <<crawl_pc, page_count, page_listings, prop_idx, processed_listing_ids,
                   detail_references, dropped, outsideCrawl>>

\* the batch loop is over: back to the page loop
DetailsStored ==
    /\ crawl_pc = "details"
    /\ batch_start >= Len(detail_references)
    /\ crawl_pc' = "next_page"
    /\ UNCHANGED <<page_count, page_listings, prop_idx, processed_listing_ids,
                   detail_references, batch_start, started, dropped, outsideCrawl>>

NextDetail ==
    \/ \E page \in Pages : GeneratorYields(page)
    \/ GeneratorEnds
    \/ \E built \in BOOLEAN : ProcessProp(built)
    \/ PageProcessed
    \/ RunBatch
    \/ DetailsStored

SpecDetail == InitStore /\ [][NextDetail]_vars

----------------------------------------------------------------------------
(* The detail stage: FundaCrawler._get_and_store_detailed_info and the tasks *)
(* it gathers (_fetch_parse_and_store_detail, _fetch_and_parse_detail).  A    *)
(* task runs without interruption from one await that suspends it to the     *)
(* next: the fetch of the page, the archiving of the HTML, the cookie        *)
(* refresh and the store call.  A dict is a function from its keys.          *)


\* d.update(e): e's values win on the keys both have
Update(d, e) == [k \in DOMAIN d \cup DOMAIN e |-> IF k \in DOMAIN e THEN e[k] ELSE d[k]]

\* del d[k] / d.pop(k)
Without(d, k) == [x \in DOMAIN d \ {k} |-> d[x]]

Str_ParseFailed == <<"[","P","A","R","S","E","_","F","A","I","L","E","D","]">>
Str_PartialParse == <<"[","P","A","R","T","I","A","L","_","P","A","R","S","E","]"," ">>
Str_Rented == <<"r","e","n","t","e","d">>

\* base_dict of Property.to_flat_dict() for the listing with this id, as the listing
\* feed gave it
FlatDict(id) ==
    [k \in {"id", "status", "rent_price", "detail_url", "address_city"} |->
        CASE k = "id" -> Some(id)
          [] k = "status" -> Some(Str_Available)
          [] k = "rent_price" -> Some(1300)
          [] k = "address_city" -> Some(Str_Delft)
          [] OTHER -> Some(<<"/", "h", "u", "u", "r">>)]

\* text with the characters of a set removed (str.replace(c, "") for each c)
RECURSIVE RemoveChars(_, _)
RemoveChars(text, cs) ==
    IF text = <<>> THEN <<>>
    ELSE IF Head(text) \in cs THEN RemoveChars(Tail(text), cs)
    ELSE <<Head(text)>> \o RemoveChars(Tail(text), cs)

\* text.split(c)[0]
RECURSIVE Before(_, _)
Before(text, c) ==
    IF text = <<>> \/ Head(text) = c THEN <<>>
    ELSE <<Head(text)>> \o Before(Tail(text), c)

RECURSIVE LStrip(_)
LStrip(text) ==
    IF text # <<>> /\ Head(text) = " " THEN LStrip(Tail(text)) ELSE text

RECURSIVE RStrip(_)
RStrip(text) ==
    IF text # <<>> /\ text[Len(text)] = " " THEN RStrip(SubSeq(text, 1, Len(text) - 1))
    ELSE text

\* str.strip()
Strip(text) == RStrip(LStrip(text))

\* " ".join(text.split()): runs of blanks become one, none at the ends
RECURSIVE Squeeze(_)
Squeeze(text) ==
    IF text = <<>> THEN <<>>
    ELSE IF Head(text) = " "
         THEN IF Tail(text) = <<>> \/ Head(Tail(text)) = " "
              THEN Squeeze(Tail(text))
              ELSE <<" ">> \o Squeeze(Tail(text))
         ELSE <<Head(text)>> \o Squeeze(Tail(text))

JoinSplit(text) == LStrip(Squeeze(text))

Digits == <<"0", "1", "2", "3", "4", "5", "6", "7", "8", "9">>
IsDigit(c) == \E i \in 1..10 : Digits[i] = c
DigitValue(c) == (CHOOSE i \in 1..10 : Digits[i] = c) - 1

\* float(text) of a text of digits; any other text raises ValueError
IsNumber(text) == text # <<>> /\ \A i \in 1..Len(text) : IsDigit(text[i])
RECURSIVE NumberOf(_)
NumberOf(text) ==
    IF text = <<>> THEN 0
    ELSE 10 * NumberOf(SubSeq(text, 1, Len(text) - 1)) + DigitValue(text[Len(text)])

\* HouseDetails.price, the pipeline function: currency sign and separators removed,
\* the text before "/" and before "p" kept; 0 for a text that is no number.  "E"
\* stands for the euro sign.
PricePipeline(value) ==
    IF value = <<>> THEN 0
    ELSE LET cleaned == Strip(Before(Before(RemoveChars(value, {"E", ".", ","}), "/"), "p"))
         IN IF IsNumber(cleaned) THEN NumberOf(cleaned) ELSE 0

\* HouseDetails.id, the pipeline function
IdPipeline(value) == IF value = 0 THEN 999999 ELSE value

\* variant: a field that was never set reads as None
RawValueOrNone(numeric, raw, piped) == IF IsNone(raw) THEN None ELSE Some(piped)

\* ItemDescriptor.__get__: the zero value of the field's type for a raw value of
\* None, otherwise the cleaned value (piped: what the pipeline function makes of it)
ItemDescriptorGet(numeric, raw, piped) ==
    IF IsNone(raw) THEN Some(IF numeric THEN 0 ELSE <<>>) ELSE Some(piped)

\* getattr(house_info, field) for the descriptor fields the model follows
GetAttr(house_info, field) ==
    CASE field = "id" ->
            ItemDescriptorGet(TRUE, house_info.id,
                              IF IsNone(house_info.id) THEN 0
                              ELSE IdPipeline(Val(house_info.id)))
      [] field = "price" ->
            ItemDescriptorGet(TRUE, house_info.price,
                              IF IsNone(house_info.price) THEN 0
                              ELSE PricePipeline(Val(house_info.price)))
      [] field = "status" ->
            ItemDescriptorGet(FALSE, house_info.status,
                              IF IsNone(house_info.status) THEN <<>>
                              ELSE Strip(Val(house_info.status)))
      [] OTHER ->
            ItemDescriptorGet(FALSE, house_info.description,
                              IF IsNone(house_info.description) THEN <<>>
                              ELSE JoinSplit(Val(house_info.description)))

DescriptorNames == {"id", "price", "status", "description"}

\* HouseDetails.to_dict_items()
to_dict_items(house_info) == [name \in DescriptorNames |-> GetAttr(house_info, name)]

\* essential_fields = ["price"]; any(getattr(house_info, field) is None ...)
essential_fields == {"price"}
is_partial_failure(house_info) ==
    \E field \in essential_fields : IsNone(GetAttr(house_info, field))

\* house_info.description = f"[PARTIAL_PARSE] {house_info.description or ''}"
MarkPartial(house_info) ==
    [house_info EXCEPT
        !.description = Some(Str_PartialParse \o Val(GetAttr(house_info, "description")))]

\* A detail page, as far as the crawler looks at it: whether the body is empty,
\* whether it carries the captcha text, what its title says (is_parseable_listing),
\* whether extraction breaks on it, and the texts the XPaths find.
HtmlPage(body, parseable, breaks, status, price, description) ==
    [body |-> body, parseable |-> parseable, breaks |-> breaks, status |-> status,
     price |-> price, description |-> description]

Txt_available == <<"a","v","a","i","l","a","b","l","e">>
Txt_price == <<"E"," ","1",".","2","5","0"," ","/","m","o">>
Txt_description == <<" ","t","w","o"," "," ","r","o","o","m","s">>

EmptyBody == HtmlPage("", FALSE, FALSE, <<>>, None, <<>>)
CaptchaPage == HtmlPage("Je bent bijna op de pagina die je zoekt", FALSE, FALSE, <<>>, None, <<>>)
OffTypePage == HtmlPage("listing", FALSE, FALSE, <<>>, None, <<>>)
BrokenPage == HtmlPage("listing", TRUE, TRUE, <<>>, None, <<>>)
NoPricePage == HtmlPage("listing", TRUE, FALSE, Txt_available, None, Txt_description)
FullPage == HtmlPage("listing", TRUE, FALSE, Str_Rented, Some(Txt_price), Txt_description)

HtmlPages == {EmptyBody, CaptchaPage, OffTypePage, BrokenPage, NoPricePage, FullPage}

\* variant: the test for an empty body is missing
NeverEmptyContent(html) == FALSE

\* if not html_content
IsEmptyContent(html) == html.body = ""

\* variant: the marker is never found
NoCaptchaMarker(html) == FALSE

\* "Je bent bijna op de pagina die je zoekt" in html_content
HasCaptchaMarker(html) == html.body = "Je bent bijna op de pagina die je zoekt"

UpperChar(c) ==
    CASE c = "a" -> "A"
      [] c = "r" -> "R"
      [] c = "s" -> "S"
      [] OTHER -> c

\* str.capitalize() of a lower-case text
Capitalize(text) == IF text = <<>> THEN <<>> ELSE <<UpperChar(Head(text))>> \o Tail(text)

\* BaseFundaDetailExtractor.extract_details raises on this page
ExtractRaises(html) == html.parseable /\ html.breaks

\* BaseFundaDetailExtractor.extract_details(id, page_content): None for a page the
\* pre-check turns down, otherwise HouseDetail(id=id, status=..., price=..., description=...)
extract_details(id, html) ==
    IF ~html.parseable THEN None
    ELSE Some([id |-> Some(id),
               status |-> Some(Capitalize(html.status)),
               price |-> html.price,
               description |-> Some(html.description)])

\* Property.to_flat_dict() called at time t: base_dict with
\* crawl_date = datetime.now().isoformat()
to_flat_dict(property, t) == Update(property, "crawl_date" :> Some(t))

\* HouseDetailReference(house_id, detail_uri, city, listing_data): listing_data is the
\* listing's Property in detail mode and None in update mode
Reference(id, with_listing) ==
    [house_id |-> id, listing_data |-> IF with_listing THEN Some(FlatDict(id)) ELSE None]

\* Step 1 of _fetch_parse_and_store_detail, made at time t: the listing's flat dict
\* with "id" renamed to "listing_id", or the id alone
InitialData(detail_ref, t) ==
    IF ~IsNone(detail_ref.listing_data)
    THEN LET d == to_flat_dict(Val(detail_ref.listing_data), t)
         IN IF "id" \in DOMAIN d
            THEN Update(Without(d, "id"), "listing_id" :> d["id"])
            ELSE d
    ELSE "listing_id" :> Some(detail_ref.house_id)

\* variant: the listing's values win on the keys both have
ListingFirstRecord(data_to_store, house_info) ==
    Update(to_dict_items(house_info), data_to_store)

\* Step 3: data_to_store.update(detail_data), then the redundant property_id removed
MergedRecord(data_to_store, house_info) ==
    LET merged == Update(data_to_store, to_dict_items(house_info))
    IN IF "property_id" \in DOMAIN merged THEN Without(merged, "property_id") ELSE merged

\* variant: the sentinel status is left out
IdOnlyRecord(detail_ref) == "listing_id" :> Some(detail_ref.house_id)

\* tombstone_data
Tombstone(detail_ref) ==
    [k \in {"listing_id", "status"} |->
        IF k = "listing_id" THEN Some(detail_ref.house_id) ELSE Some(Str_ParseFailed)]

\* upsert_listing's reading of the dict it is handed: "id" renamed to "listing_id",
\* a missing or zero id taken as missing, and the fields the model follows
ListingItem(content) ==
    LET d == IF "id" \in DOMAIN content
             THEN Update(Without(content, "id"), "listing_id" :> content["id"])
             ELSE content
    IN [listing_id |-> IF Get(d, "listing_id") = Some(0) THEN None ELSE Get(d, "listing_id"),
        status |-> Get(d, "status"),
        rent_price |-> Get(d, "rent_price"),
        asking_price |-> Get(d, "asking_price"),
        price |-> Get(d, "price"),
        description |-> Get(d, "description"),
        crawl_date |-> Get(d, "crawl_date"),
        address_city |-> Get(d, "address_city")]

RefIds == 1..MaxRefs
Refs == 1..Len(detail_list)

\* a task that gather has not created yet: its data_to_store is made when it starts
PendingTask(detail_ref) ==
    [pc |-> "pending", html |-> None, house_info |-> None, reason |-> "",
     data_to_store |-> None, sent |-> None, outcome |-> "", batch |-> 0]

\* batch = detail_list[i : i + batch_size]
BatchOf(i) == {r \in Refs : i < r /\ r <= i + BatchSize}

\* the tasks between "async with self.semaphore" and its end
HoldsPermit(t) == t.pc \in {"fetch", "archive", "refresh"}
InFlight == {r \in Refs : HoldsPermit(tasks[r])}

\* variant: a task enters the block whatever the semaphore's value
AcquireAlways(value) == TRUE

\* Semaphore.acquire() at the start of "async with self.semaphore": the task goes on
\* only while a permit is left
CanAcquire(value) == value > 0

\* variant: the permit is kept
KeepPermit(value) == value

\* Semaphore.release() at the end of "async with self.semaphore"
Release(value) == value + 1

\* variant: the attempt at the limit is still made
MayRefreshAtLimit(attempts) == attempts <= MAX_COOKIE_UPDATE_LIMIT

\* if self.cookie_update_attempts < config.MAX_COOKIE_UPDATE_LIMIT
MayRefresh(attempts) == attempts < MAX_COOKIE_UPDATE_LIMIT

MAX_COOKIE_FAILURE_COUNT == 3

\* variant: a cookie as old as its lifetime still counts as valid
ValidAtLifetime(data, t) ==
    /\ ~IsNone(data)
    /\ (t - Val(data).timestamp) <= cookie_lifetime
    /\ Val(data).failure_count < MAX_COOKIE_FAILURE_COUNT

\* FundaCookieManager._is_cookie_valid at time t
IsCookieValid(data, t) ==
    IF IsNone(data) THEN FALSE
    ELSE IF (t - Val(data).timestamp) >= cookie_lifetime THEN FALSE
    ELSE IF Val(data).failure_count >= MAX_COOKIE_FAILURE_COUNT THEN FALSE
    ELSE TRUE

\* variant: the failure is not counted
FailureIgnored(data, t) == data

\* FundaCookieManager.report_failure at time t: the new _cookie_data
ReportFailure(data, t) ==
    IF IsNone(data) THEN data
    ELSE Some([Val(data) EXCEPT !.failure_count = @ + 1,
                                !.last_failure_timestamp = Some(t)])

\* variant: the failure count of the cookie before is carried over
RefreshKeepsCount(new_cookie_string, t, data) ==
    Some([cookie_string |-> new_cookie_string, timestamp |-> t,
          failure_count |-> IF IsNone(data) THEN 0 ELSE Val(data).failure_count,
          last_failure_timestamp |-> None])

\* FundaCookieManager.get_cookie, lines 38-43: the _cookie_data made of the new cookie
\* (data: the _cookie_data it replaces)
RefreshedCookie(new_cookie_string, t, data) ==
    Some([cookie_string |-> new_cookie_string, timestamp |-> t, failure_count |-> 0,
          last_failure_timestamp |-> None])

\* the cookie the site hands out after the one in data
NextCookieString(data) == IF IsNone(data) THEN 1 ELSE Val(data).cookie_string + 1

RANDOM_DELAY_MAX == 5

\* variant: the test i > 0 is missing
DelayBeforeEveryBatch(i) == RANDOM_DELAY_MAX > 0

\* if i > 0 and config.RANDOM_DELAY_MAX > 0
DelayDue(i) == i > 0 /\ RANDOM_DELAY_MAX > 0

\* await asyncio.sleep(delay)
BatchSleep ==
    /\ fetch_pc = "loop"
    /\ batch_i < Len(detail_list)
    /\ DelayDue(batch_i)
    /\ fetch_pc' = "sleep"
    /\ delays' = delays + 1
    /\ UNCHANGED <<detail_list, batch_i, tasks, semaphore, error_html, statvars,
                   cookievars, outsideFetch>>

\* the tasks of a batch, as gather starts them: each runs up to its first await that
\* suspends, the fetch of the page for the tasks that find a permit, the semaphore
\* for the others
StartedTasks(i, value) ==
    [r \in Refs |->
        IF r \in BatchOf(i)
        THEN [tasks[r] EXCEPT !.pc = IF r - i <= value THEN "fetch" ELSE "acquire",
                              !.data_to_store = InitialData(detail_list[r], now),
                              !.batch = (i \div BatchSize) + 1]
        ELSE tasks[r]]

\* batch = detail_list[i : i + batch_size]; await asyncio.gather(*fetch_tasks)
BatchGather ==
    /\ \/ fetch_pc = "loop" /\ batch_i < Len(detail_list) /\ ~DelayDue(batch_i)
       \/ fetch_pc = "sleep"
    /\ fetch_pc' = "gather"
    /\ tasks' = StartedTasks(batch_i, semaphore)
    /\ semaphore' = semaphore - Cardinality({r \in BatchOf(batch_i) : r - batch_i <= semaphore})
    /\ UNCHANGED <<detail_list, batch_i, error_html, delays, statvars, cookievars,
                   outsideFetch>>

\* the semaphore's first waiter takes a released permit
TaskAcquire(r) ==
    /\ r \in Refs
    /\ tasks[r].pc = "acquire"
    /\ CanAcquire(semaphore)
    /\ \A q \in Refs : tasks[q].pc = "acquire" => r <= q
    /\ tasks' = [tasks EXCEPT ![r].pc = "fetch"]
    /\ semaphore' = semaphore - 1
    /\ UNCHANGED <<detail_list, fetch_pc, batch_i, error_html, delays, statvars,
                   cookievars, outsideFetch>>

\* variant: gather(..., return_exceptions=True), the exception stays in the result list
GatheredQuietly(pc, raised) == pc

\* await asyncio.gather(*fetch_tasks): the first exception of a task is raised to the
\* caller, and nothing above catches it before the run ends
Gathered(pc, raised) == IF raised THEN "halted" ELSE pc

\* _fetch_parse_and_store_detail once _fetch_and_parse_detail has returned, up to the
\* await of the store call.  A result that is true is merged and stored, but
\* to_dict_items() of the pair (None, None) raises AttributeError, which the except
\* clause around the store calls logs; a result of None makes a tombstone.
StoreStep(t, detail_ref, result) ==
    IF result # <<>>
    THEN IF Len(result) = 1
         THEN [t EXCEPT !.pc = "store", !.house_info = result,
                        !.sent = Some(MergedRecord(t.data_to_store, Val(result)))]
         ELSE [t EXCEPT !.pc = "done", !.outcome = "no_store"]
    ELSE [t EXCEPT !.pc = "store", !.house_info = None, !.sent = Some(Tombstone(detail_ref))]

\* get_house_detail_info has returned html: _fetch_and_parse_detail from line 373 to
\* its next await (the archiving of the HTML, the cookie refresh) or to its return,
\* and then the caller up to the store call
FetchReturns(r, html) ==
    /\ r \in Refs
    /\ tasks[r].pc = "fetch"
    /\ LET t == [tasks[r] EXCEPT !.html = Some(html)]
           detail_ref == detail_list[r]
           blocked == ~IsEmptyContent(html) /\ HasCaptchaMarker(html)
           refresh == blocked /\ MayRefresh(cookie_update_attempts)
           fatal == blocked /\ ~MayRefresh(cookie_update_attempts)
           house_info == extract_details(detail_ref.house_id, html)
           next ==
               IF IsEmptyContent(html) THEN StoreStep(t, detail_ref, <<None, None>>)
               ELSE IF refresh THEN [t EXCEPT !.pc = "refresh"]
               ELSE IF fatal THEN [t EXCEPT !.pc = "raised", !.outcome = "fatal"]
               ELSE IF ExtractRaises(html)
                    THEN [t EXCEPT !.pc = "archive", !.reason = "exception"]
               ELSE IF IsNone(house_info)
                    THEN [t EXCEPT !.pc = "archive", !.reason = "no_result"]
               ELSE IF is_partial_failure(Val(house_info))
                    THEN [t EXCEPT !.pc = "archive", !.reason = "partial",
                                   !.house_info = house_info]
               ELSE StoreStep(t, detail_ref, house_info)
       IN /\ tasks' = [tasks EXCEPT ![r] = next]
          /\ semaphore' = IF HoldsPermit(next) THEN semaphore ELSE Release(semaphore)
          /\ ip_block_count' = IF blocked THEN ip_block_count + 1 ELSE ip_block_count
          /\ failure_reports' = IF blocked THEN failure_reports + 1 ELSE failure_reports
          /\ cookie_data' = IF blocked THEN ReportFailure(cookie_data, clock) ELSE cookie_data
          /\ cookie_update_attempts' =
                IF refresh THEN cookie_update_attempts + 1 ELSE cookie_update_attempts
          /\ forced_refreshes' = IF refresh THEN forced_refreshes + 1 ELSE forced_refreshes
          /\ parsing_failures' =
                IF next.reason = "no_result" THEN parsing_failures + 1 ELSE parsing_failures
          /\ fetch_pc' = Gathered(fetch_pc, fatal)
    /\ UNCHANGED <<detail_list, batch_i, error_html, delays, snapshots_stored,
                   error_html_saved, tombstones_created, outsideFetch>>

\* utils.save_error_html has written the file: the counter, then the rest of
\* _fetch_and_parse_detail (the marker on a partial record) and the caller up to the
\* store call
ArchiveDone(r) ==
    /\ r \in Refs
    /\ tasks[r].pc = "archive"
    /\ LET t == tasks[r]
           result == IF t.reason = "partial" THEN Some(MarkPartial(Val(t.house_info)))
                     ELSE None
       IN tasks' = [tasks EXCEPT ![r] = StoreStep(t, detail_list[r], result)]
    /\ error_html' = error_html \cup {detail_list[r].house_id}
    /\ error_html_saved' = error_html_saved + 1
    /\ semaphore' = Release(semaphore)
    /\ UNCHANGED <<detail_list, fetch_pc, batch_i, delays, snapshots_stored, ip_block_count,
                   parsing_failures, tombstones_created, cookievars, outsideFetch>>

\* get_cookie(force_refresh=True) has returned: the except clause ends, the function
\* returns None, and the caller goes up to the store call
RefreshDone(r) ==
    /\ r \in Refs
    /\ tasks[r].pc = "refresh"
    /\ cookie_data' = RefreshedCookie(NextCookieString(cookie_data), clock, cookie_data)
    /\ tasks' = [tasks EXCEPT ![r] = StoreStep(tasks[r], detail_list[r], None)]
    /\ semaphore' = Release(semaphore)
    /\ UNCHANGED <<detail_list, fetch_pc, batch_i, error_html, delays, statvars,
                   cookie_update_attempts, failure_reports, forced_refreshes, outsideFetch>>

\* variant: the counter is incremented before the await of the store call
CountedBeforeStore(count, raised) == count + 1

\* await self.store.store_listing(...) and then "+= 1": the statement after the
\* await is reached only when the call did not raise
CountedAfterStore(count, raised) == IF raised THEN count ELSE count + 1

\* store.store_listing has returned, or has raised (raises: the database's error, or
\* the ValueError of a record with no id): the counter of what was stored, or the log
StoreReturns(r, raises) ==
    /\ r \in Refs
    /\ tasks[r].pc = "store"
    /\ LET t == tasks[r]
           item == ListingItem(Val(t.sent))
           raised == raises \/ IsNone(item.listing_id)
       IN /\ IF raised
             THEN /\ tasks' = [tasks EXCEPT ![r].pc = "done", ![r].outcome = "store_error"]
                  /\ UNCHANGED <<dbvars, histvars>>
             ELSE /\ UpsertListingTx(item)
                  /\ tasks' = [tasks EXCEPT ![r].pc = "done",
                                            ![r].outcome = IF t.house_info # None
                                                           THEN "stored" ELSE "tombstone"]
          /\ IF t.house_info # None
             THEN /\ snapshots_stored' = CountedAfterStore(snapshots_stored, raised)
                  /\ tombstones_created' = tombstones_created
             ELSE /\ tombstones_created' = CountedAfterStore(tombstones_created, raised)
                  /\ snapshots_stored' = snapshots_stored
    /\ UNCHANGED <<detail_list, fetch_pc, batch_i, semaphore, error_html, delays,
                   error_html_saved, ip_block_count, parsing_failures, cookievars,
                   outsideFetchStore>>

\* gather returns when every task of the batch has returned: the next i
BatchDone ==
    /\ fetch_pc = "gather"
    /\ \A r \in BatchOf(batch_i) : tasks[r].pc = "done"
    /\ batch_i' = batch_i + BatchSize
    /\ fetch_pc' = "loop"
    /\ UNCHANGED <<detail_list, tasks, semaphore, error_html, delays, statvars, cookievars,
                   outsideFetch>>

\* the range is exhausted: _get_and_store_detailed_info returns
FetchLoopEnds ==
    /\ fetch_pc = "loop"
    /\ batch_i >= Len(detail_list)
    /\ fetch_pc' = "returned"
    /\ UNCHANGED <<detail_list, batch_i, tasks, semaphore, error_html, delays, statvars,
                   cookievars, outsideFetch>>

\* The exception of a task has left gather and the run: the tasks of the batch that
\* are still suspended go on until the event loop is closed, which cancels them at
\* the await they stand at (a store call that is cut short is rolled back).
TaskCancelled(r) ==
    /\ r \in Refs
    /\ fetch_pc = "halted"
    /\ tasks[r].pc \in {"acquire", "fetch", "archive", "refresh", "store"}
    /\ tasks' = [tasks EXCEPT ![r].pc = "cancelled", ![r].outcome = "cancelled"]
    /\ semaphore' = IF HoldsPermit(tasks[r]) THEN Release(semaphore) ELSE semaphore
    /\ UNCHANGED <<detail_list, fetch_pc, batch_i, error_html, delays, statvars, cookievars,
                   outsideFetch>>

\* _get_and_store_detailed_info(detail_list) is called, the playwright client made
\* (its cookie taken from the cookie manager): the references of detail mode carry
\* their listing, those of update mode do not.  The refresh attempts are counted
\* over the whole run: the calls made for earlier pages may have used them up (each
\* after an IP block that was counted and reported).
InitFetch ==
    /\ \E with_listing \in BOOLEAN :
          detail_list = [r \in 1..MaxRefs |-> Reference(r, with_listing)]
    /\ fetch_pc = "loop"
    /\ batch_i = 0
    /\ tasks = [r \in Refs |-> PendingTask(detail_list[r])]
    /\ semaphore = MAX_CONCURRENCY_NUM
    /\ error_html = {}
    /\ delays = 0
    /\ snapshots_stored = 0
    /\ error_html_saved = 0
    /\ parsing_failures = 0
    /\ tombstones_created = 0
    /\ cookie_update_attempts \in {0, MAX_COOKIE_UPDATE_LIMIT}
    /\ ip_block_count = cookie_update_attempts
    /\ failure_reports = cookie_update_attempts
    /\ forced_refreshes = cookie_update_attempts
    /\ cookie_data = RefreshedCookie(cookie_update_attempts, 0, None)

\* the cookie the site handed out first in the run
FirstCookieString == 0

\* create_funda_playwright_client: the Cookie header is the string get_cookie()
\* returned when the client was made, at the first call of
\* _get_and_store_detailed_info (lines 271-272)
CreatedClientCookie(cookie_str) == Some(cookie_str)

\* FundaPlaywrightClient.update_cookies would set the header anew; nothing in the
\* crawler calls it, so no step of the detail stage changes client_cookie
InitClient == client_cookie = CreatedClientCookie(FirstCookieString)

InitDetailStage ==
    /\ InitDb /\ InitHist /\ InitNoTx /\ InitNoClaim /\ InitCrawler /\ InitFetch
    /\ InitNoManager /\ InitNoPages /\ InitNoRun /\ InitNoItem /\ InitNoRequest
    /\ InitClient

NextFetch ==
    \/ BatchSleep
    \/ BatchGather
    \/ \E r \in RefIds : TaskAcquire(r)
    \/ \E r \in RefIds, html \in HtmlPages : FetchReturns(r, html)
    \/ \E r \in RefIds : ArchiveDone(r)
    \/ \E r \in RefIds : RefreshDone(r)
    \/ \E r \in RefIds, raises \in BOOLEAN : StoreReturns(r, raises)
    \/ BatchDone
    \/ FetchLoopEnds
    \/ \E r \in RefIds : TaskCancelled(r)

SpecFetch == InitDetailStage /\ [][NextFetch]_vars

----------------------------------------------------------------------------
(* The cookie manager (platforms/funda/funda_cookie_manager.py), used by several  *)
(* coroutines of one process.  A coroutine runs without interruption up to its    *)
(* next await: get_cookie awaits _fetch_new_cookie, which awaits the start of     *)
(* Playwright before it launches the browser; report_failure awaits nothing.      *)

\* the callers inside get_cookie, between line 37 and line 38
Refreshing == {c \in Callers : callers[c].pc \in {"starting", "fetching"}}

\* get_cookie(force_refresh) is called: it returns the cached cookie (lines 32-34), or
\* goes on to await _fetch_new_cookie (line 37).  The callers are numbered in the
\* order of their calls, and the model follows one get_cookie call of each.
GetCookie(c, force_refresh) ==
    /\ c \in Callers
    /\ callers[c].pc = "idle"
    /\ \A d \in Callers : d < c => callers[d].pc # "idle"
    /\ LET valid == IsCookieValid(cookie_data, clock)
           cached == ~force_refresh /\ valid
           result == IF cached THEN Some(Val(cookie_data).cookie_string) ELSE None
       IN /\ IF cached THEN TRUE ELSE launches + Cardinality(Refreshing) < MaxLaunches
          /\ callers' = [callers EXCEPT
                            ![c] = [pc |-> IF cached THEN "returned" ELSE "starting",
                                    result |-> result]]
          /\ cookie_call' = [op |-> IF cached THEN "cached" ELSE "fetch",
                             force |-> force_refresh, valid |-> valid,
                             pre |-> cookie_data, t |-> clock, result |-> result]
    /\ UNCHANGED <<clock, cookie_file, launches, issued, cookie_data, outsideCookie>>

\* _fetch_new_cookie, line 81: chromium.launch
BrowserLaunch(c) ==
    /\ c \in Callers
    /\ callers[c].pc = "starting"
    /\ callers' = [callers EXCEPT ![c].pc = "fetching"]
    /\ launches' = launches + 1
    /\ UNCHANGED <<clock, cookie_file, issued, cookie_call, cookie_data, outsideCookie>>

\* _fetch_new_cookie has returned the site's new cookie: get_cookie lines 38-45
FetchNewCookieReturns(c) ==
    /\ c \in Callers
    /\ callers[c].pc = "fetching"
    /\ LET new_cookie_string == issued + 1
       IN /\ issued' = new_cookie_string
          /\ cookie_data' = RefreshedCookie(new_cookie_string, clock, cookie_data)
          /\ cookie_file' = cookie_data'
          /\ callers' = [callers EXCEPT ![c].pc = "returned",
                                        ![c].result = Some(new_cookie_string)]
          /\ cookie_call' = [op |-> "refreshed", force |-> FALSE, valid |-> FALSE,
                             pre |-> cookie_data, t |-> clock,
                             result |-> Some(new_cookie_string)]
    /\ UNCHANGED <<clock, launches, outsideCookie>>

\* _fetch_new_cookie has raised (page.goto timed out): the exception leaves get_cookie
\* at line 37, the browser is closed, nothing is stored
FetchNewCookieRaises(c) ==
    /\ c \in Callers
    /\ callers[c].pc = "fetching"
    /\ callers' = [callers EXCEPT ![c].pc = "raised"]
    /\ UNCHANGED <<clock, cookie_file, launches, issued, cookie_call, cookie_data,
                   outsideCookie>>

\* report_failure(), lines 49-54, called by a coroutine that is not inside get_cookie
\* (a detail task that met an IP block)
ReportFailureCall ==
    /\ IF IsNone(cookie_data) THEN TRUE
       ELSE Val(cookie_data).failure_count < MAX_COOKIE_FAILURE_COUNT
    /\ cookie_data' = ReportFailure(cookie_data, clock)
    /\ cookie_file' = IF IsNone(cookie_data) THEN cookie_file ELSE cookie_data'
    /\ cookie_call' =
          [op |-> "report_failure", force |-> FALSE, valid |-> FALSE,
           pre |-> cookie_data, t |-> clock, result |-> None]
    /\ UNCHANGED <<clock, callers, launches, issued, outsideCookie>>

\* time passes
Tick ==
    /\ clock < MaxTime
    /\ clock' = clock + 1
    /\ UNCHANGED <<cookie_file, callers, launches, issued, cookie_call, cookie_data,
                   outsideCookie>>

\* _load_cookie, lines 61-65, in FundaCookieManager.__init__ (line 29)
LoadCookie(file) == file

\* the cookie files a process may find when it starts: none, or one written at time 0
\* by a run before, perhaps with failures counted
CookieFiles ==
    {None} \cup
    {Some([cookie_string |-> 0, timestamp |-> 0, failure_count |-> n,
           last_failure_timestamp |-> IF n = 0 THEN None ELSE Some(0)]) :
        n \in {0, MAX_COOKIE_FAILURE_COUNT - 1}}

InitManager ==
    /\ clock = 0
    /\ cookie_file \in CookieFiles
    /\ callers = [c \in Callers |-> IdleCaller]
    /\ launches = 0
    /\ issued = 0
    /\ cookie_call = NoCookieCall

InitCookie ==
    /\ InitDb /\ InitHist /\ InitNoTx /\ InitNoClaim /\ InitCrawler /\ InitManager
    /\ InitNoRequest /\ InitNoClient
    /\ detail_list = <<>>
    /\ fetch_pc = "idle"
    /\ batch_i = 0
    /\ tasks = <<>>
    /\ semaphore = MAX_CONCURRENCY_NUM
    /\ error_html = {}
    /\ delays = 0
    /\ snapshots_stored = 0
    /\ error_html_saved = 0
    /\ ip_block_count = 0
    /\ parsing_failures = 0
    /\ tombstones_created = 0
    /\ cookie_update_attempts = 0
    /\ failure_reports = 0
    /\ forced_refreshes = 0
    /\ cookie_data = LoadCookie(cookie_file)
    /\ InitNoPages
    /\ InitNoRun
    /\ InitNoItem

NextCookie ==
    \/ \E c \in Callers, force_refresh \in BOOLEAN : GetCookie(c, force_refresh)
    \/ \E c \in Callers : BrowserLaunch(c)
    \/ \E c \in Callers : FetchNewCookieReturns(c)
    \/ \E c \in Callers : FetchNewCookieRaises(c)
    \/ ReportFailureCall
    \/ Tick

SpecCookie == InitCookie /\ [][NextCookie]_vars

----------------------------------------------------------------------------
(* The listing generator (core.py, get_house_info_generator and fetch_page).  The *)
(* site is the environment: to a request with offset o it answers with the        *)
(* listings o+1 .. o+15 of the total_found that match, or the request fails.      *)

PageSize == 15

\* what a listing-page request can come to: a parsed response, EmptyResponseError,
\* PaginationLimitError, any other exception of the request, or a response on which
\* parsing breaks ("unparsed": parse_single_page_house_info catches the exception
\* and returns an empty response with total_value 0, client.py:320-330)
Outcomes == {"ok", "empty_response", "pagination_limit", "error", "unparsed"}

\* the outcomes that reach the caller as an exception
RaisedOutcomes == {"empty_response", "pagination_limit", "error"}

\* variant: the empty response made for a parsing error carries the site's total
TotalOfSite(outcome) == total_found

\* total_value of the response parse_single_page_house_info returns
TotalValue(outcome) == IF outcome = "ok" THEN total_found ELSE 0

\* (start_page - 1) * 15 and (page_num - 1) * 15: the 'from' parameter of a page
OffsetOf(page) == (page - 1) * PageSize

\* the listings the site returns for an offset
PropertiesAt(offset) == {i \in 1..total_found : offset < i /\ i <= offset + PageSize}

\* variant: the division is rounded down
FloorPages(total_value) == total_value \div PageSize

\* math.ceil(first_page_houses.total_value / 15)
CeilPages(total_value) == (total_value + PageSize - 1) \div PageSize

\* variant: the configured end page is taken as it is
EndPageAsConfigured(configured, pages) ==
    IF IsNone(configured) THEN pages + 1 ELSE Val(configured)

\* lines 570-573: the end of the range of the for loop
EndPageBound(configured, pages) ==
    IF IsNone(configured) THEN pages + 1
    ELSE IF Val(configured) < pages + 1 THEN Val(configured) ELSE pages + 1

\* variant: a page that failed ends the loop
GoesOnAfterOkOnly(outcome) == outcome = "ok"

\* lines 575-584: whatever fetch_page returned, the list is yielded and the for loop
\* goes to its next page_num
GoesOnAfter(outcome) == TRUE

\* the properties of the parsed response; fetch_page gives [] for every exception,
\* and the response made for a parsing error has none
FetchPageResult(outcome, offset) == IF outcome = "ok" THEN PropertiesAt(offset) ELSE {}

PageRequest(page) ==
    [page |-> page, from_ |-> OffsetOf(page), outcome |-> "pending", yielded |-> None]

\* lines 551-555: the request for the first page is sent
RequestFirstPage ==
    /\ gen_pc = "start"
    /\ fetches' = Append(fetches, PageRequest(start_page))
    /\ gen_pc' = "first_wait"
    /\ UNCHANGED <<start_page, end_page, total_found, page_num, total_pages, outsidePages>>

\* lines 553-575: the first page's response is there.  An exception ends the generator
\* with nothing yielded; otherwise the properties of the response are yielded (none
\* for a response on which parsing broke) and its total sets the range of the loop.
FirstPageReturns(outcome) ==
    /\ gen_pc = "first_wait"
    /\ LET n == Len(fetches)
           req == fetches[n]
       IN IF outcome \notin RaisedOutcomes
          THEN /\ fetches' = [fetches EXCEPT
                                 ![n].outcome = outcome,
                                 ![n].yielded = Some(FetchPageResult(outcome, req.from_))]
               /\ total_pages' = Some(CeilPages(TotalValue(outcome)))
               /\ page_num' = start_page + 1
               /\ gen_pc' = "loop"
          ELSE /\ fetches' = [fetches EXCEPT ![n].outcome = outcome]
               /\ gen_pc' = "done"
               /\ UNCHANGED <<page_num, total_pages>>
    /\ UNCHANGED <<start_page, end_page, total_found, outsidePages>>

\* lines 575-579: the next page_num of the range, its request sent by fetch_page
RequestPage ==
    /\ gen_pc = "loop"
    /\ page_num < EndPageBound(end_page, Val(total_pages))
    /\ fetches' = Append(fetches, PageRequest(page_num))
    /\ gen_pc' = "page_wait"
    /\ UNCHANGED <<start_page, end_page, total_found, page_num, total_pages, outsidePages>>

\* fetch_page has returned (lines 526-541), its list is yielded (line 580)
PageReturns(outcome) ==
    /\ gen_pc = "page_wait"
    /\ LET n == Len(fetches)
       IN fetches' = [fetches EXCEPT
                         ![n].outcome = outcome,
                         ![n].yielded = Some(FetchPageResult(outcome, fetches[n].from_))]
    /\ page_num' = page_num + 1
    /\ gen_pc' = IF GoesOnAfter(outcome) THEN "loop" ELSE "done"
    /\ UNCHANGED <<start_page, end_page, total_found, total_pages, outsidePages>>

\* the range of the for loop is used up
GeneratorReturns ==
    /\ gen_pc = "loop"
    /\ page_num >= EndPageBound(end_page, Val(total_pages))
    /\ gen_pc' = "done"
    /\ UNCHANGED <<start_page, end_page, total_found, page_num, total_pages, fetches,
                   outsidePages>>

InitGenerator ==
    /\ start_page \in 1..MaxStartPage
    /\ end_page \in {None} \cup {Some(e) : e \in 1..MaxEndPage}
    /\ total_found \in 0..MaxTotal
    /\ gen_pc = "start"
    /\ page_num = 0
    /\ total_pages = None
    /\ fetches = <<>>

InitPages ==
    InitDb /\ InitHist /\ InitNoTx /\ InitNoClaim /\ InitCrawler /\ InitNoFetch
    /\ InitNoManager /\ InitGenerator /\ InitNoRun /\ InitNoItem /\ InitNoRequest
    /\ InitNoClient

NextPages ==
    \/ RequestFirstPage
    \/ \E outcome \in Outcomes : FirstPageReturns(outcome)
    \/ RequestPage
    \/ \E outcome \in Outcomes : PageReturns(outcome)
    \/ GeneratorReturns

SpecPages == InitPages /\ [][NextPages]_vars

----------------------------------------------------------------------------
(* A run of the crawler (core.py, FundaCrawler.start).  Inside the try block the  *)
(* detail and the update mode come to a call of _get_and_store_detailed_info, the *)
(* detail stage above: with the listing's data in detail mode, without in update  *)
(* mode.                                                                          *)

CrawlTypes == {"listing", "detail", "update", "other"}

\* variant: the report is printed at the end of the try block
SummaryOnSuccess(count, raised) == IF raised THEN count ELSE count + 1

\* finally: self._print_summary_report(), whether the try block ended or raised
SummaryInFinally(count, raised) == count + 1

\* await self._initialize_base_client() has returned: the try block is entered
BaseClientReady ==
    /\ run_pc = "init"
    /\ run_pc' = "try"
    /\ UNCHANGED <<crawl_type, reports, fetchvars, outsideRun>>

\* the branch on config.FUNDA_CRAWL_TYPE, up to the first await of the mode: the
\* listing mode starts to collect the listings, the detail and the update mode come
\* to the detail stage, any other value raises ValueError (line 157) and the finally
\* clause runs
EnterCrawlMode ==
    /\ run_pc = "try"
    /\ IF crawl_type \in {"detail", "update"}
       THEN /\ detail_list' = [r \in 1..MaxRefs |-> Reference(r, crawl_type = "detail")]
            /\ tasks' = [r \in 1..MaxRefs |-> PendingTask(detail_list'[r])]
            /\ fetch_pc' = "loop"
            /\ run_pc' = "pipeline"
            /\ reports' = reports
       ELSE IF crawl_type = "listing"
       THEN /\ run_pc' = "listing"
            /\ UNCHANGED <<detail_list, tasks, fetch_pc, reports>>
       ELSE /\ run_pc' = "raised"
            /\ reports' = SummaryInFinally(reports, TRUE)
            /\ UNCHANGED <<detail_list, tasks, fetch_pc>>
    /\ UNCHANGED <<crawl_type, batch_i, semaphore, error_html, delays, statvars, cookievars,
                   outsideRun>>

\* the listing mode has ended (lines 133-145), or an exception has left it
ListingModeEnds(raised) ==
    /\ run_pc = "listing"
    /\ run_pc' = IF raised THEN "raised" ELSE "finished"
    /\ reports' = SummaryInFinally(reports, raised)
    /\ UNCHANGED <<crawl_type, fetchvars, outsideRun>>

\* _get_and_store_detailed_info has returned: the try block ends
PipelineReturns ==
    /\ run_pc = "pipeline"
    /\ fetch_pc = "returned"
    /\ run_pc' = "finished"
    /\ reports' = SummaryInFinally(reports, FALSE)
    /\ UNCHANGED <<crawl_type, fetchvars, outsideRun>>

\* the IPBlockError that halted the detail stage leaves the try block
PipelineHalts ==
    /\ run_pc = "pipeline"
    /\ fetch_pc = "halted"
    /\ run_pc' = "raised"
    /\ reports' = SummaryInFinally(reports, TRUE)
    /\ UNCHANGED <<crawl_type, fetchvars, outsideRun>>

InitRun ==
    /\ InitDb /\ InitHist /\ InitNoTx /\ InitNoClaim /\ InitCrawler /\ InitNoFetch
    /\ InitNoManager /\ InitNoPages /\ InitNoItem /\ InitNoRequest /\ InitNoClient
    /\ crawl_type \in CrawlTypes
    /\ run_pc = "init"
    /\ reports = 0

NextRun ==
    \/ BaseClientReady
    \/ EnterCrawlMode
    \/ \E raised \in BOOLEAN : ListingModeEnds(raised)
    \/ PipelineReturns
    \/ PipelineHalts
    \/ BatchSleep
    \/ BatchGather
    \/ \E r \in RefIds : TaskAcquire(r)
    \/ \E r \in RefIds, html \in HtmlPages : FetchReturns(r, html)
    \/ \E r \in RefIds : ArchiveDone(r)
    \/ \E r \in RefIds : RefreshDone(r)
    \/ \E r \in RefIds, raises \in BOOLEAN : StoreReturns(r, raises)
    \/ BatchDone
    \/ FetchLoopEnds
    \/ \E r \in RefIds : TaskCancelled(r)

SpecRun == InitRun /\ [][NextRun]_vars

----------------------------------------------------------------------------
(* Reading the cleaned fields of an item (model/funda.py, RentInfo, and           *)
(* model/m_house_detail.py, HouseDetails.price).  A raw value is None, a text or  *)
(* a number; a call returns a value or raises.  "E" stands for the euro sign and  *)
(* "q" for the superscript two of the square metre.                               *)

Text(t) == [type |-> "str", v |-> t]
\* the number that t is the decimal notation of
Number(t) == [type |-> "int", v |-> t]

\* what a call comes to: a number or a text returned, or an exception
ReturnsNumber(n) == [exc |-> "", number |-> n, text |-> <<>>]
ReturnsText(t) == [exc |-> "", number |-> 0, text |-> t]
Raises(exc) == [exc |-> exc, number |-> 0, text |-> <<>>]

\* text.replace(sub, "")
RECURSIVE RemoveSub(_, _)
RemoveSub(text, sub) ==
    IF Len(text) < Len(sub) THEN text
    ELSE IF SubSeq(text, 1, Len(sub)) = sub
         THEN RemoveSub(SubSeq(text, Len(sub) + 1, Len(text)), sub)
         ELSE <<Head(text)>> \o RemoveSub(Tail(text), sub)

\* float(text) and int(text): the number of a text of digits, ValueError otherwise
ToNumber(text) ==
    IF IsNumber(text) THEN ReturnsNumber(NumberOf(text)) ELSE Raises("ValueError")

\* RentInfo.monthly_rent (funda.py:40-42) and float() of what it returns; a value
\* that is no text has no replace()
monthly_rent(value) ==
    IF value.type # "str" THEN Raises("AttributeError")
    ELSE ToNumber(Strip(Before(RemoveChars(value.v, {"E", ","}), "/")))

\* RentInfo.living_area (funda.py:44-46) and int() of what it returns
living_area(value) ==
    IF value.type # "str" THEN Raises("AttributeError")
    ELSE ToNumber(Strip(RemoveSub(value.v, <<"m", "q">>)))

\* RentInfo.postal_code (funda.py:61-63) and str() of what it returns
postal_code(value) ==
    IF value.type # "str" THEN Raises("AttributeError")
    ELSE ReturnsText(Strip(value.v))

\* HouseDetails.price (m_house_detail.py:46-57) and float() of what it returns: the
\* function catches ValueError and AttributeError itself
price(value) ==
    IF value.type # "str" THEN ReturnsNumber(0) ELSE ReturnsNumber(PricePipeline(value.v))

ItemFields == {"monthly_rent", "living_area", "postal_code", "price"}
NumericFields == {"monthly_rent", "living_area", "price"}

Cleaned(field, value) ==
    CASE field = "monthly_rent" -> monthly_rent(value)
      [] field = "living_area" -> living_area(value)
      [] field = "postal_code" -> postal_code(value)
      [] OTHER -> price(value)

\* variant: every exception of the pipeline function is caught
CaughtAll == {"ValueError", "TypeError", "AttributeError"}

\* except (ValueError, TypeError)
Caught == {"ValueError", "TypeError"}

\* ItemDescriptor.__get__ (funda.py:15-28, m_house_detail.py:15-28)
DescriptorRead(field, raw) ==
    LET zero == IF field \in NumericFields THEN ReturnsNumber(0) ELSE ReturnsText(<<>>)
    IN IF IsNone(raw) THEN zero
       ELSE LET piped == Cleaned(field, Val(raw))
            IN IF piped.exc = "" THEN piped
               ELSE IF piped.exc \in Caught THEN zero
               ELSE piped

Txt_rent == <<"E"," ","3",",","2","5","0"," ","/","m","a","a","n","d">>
Txt_area == <<"1","1","8"," ","m","q">>
Txt_invalid == <<"i","n","v","a","l","i","d">>
Txt_3250 == <<"3","2","5","0">>

\* the raw values an item is made with
RawValues ==
    {None, Some(Text(Txt_rent)), Some(Text(Txt_area)), Some(Text(<<>>)),
     Some(Text(Txt_invalid)), Some(Number(Txt_3250))}

\* getattr(item, field)
ReadField(field) ==
    /\ field \in ItemFields
    /\ raw_fields # <<>>
    /\ LET result == DescriptorRead(field, raw_fields[field])
       IN read' = [field |-> field, raised |-> result.exc # "", number |-> result.number,
                   text |-> result.text]
    /\ UNCHANGED <<raw_fields, outsideItem>>

InitItem ==
    /\ InitDb /\ InitHist /\ InitNoTx /\ InitNoClaim /\ InitCrawler /\ InitNoFetch
    /\ InitNoManager /\ InitNoPages /\ InitNoRun /\ InitNoRequest /\ InitNoClient
    /\ raw_fields \in [ItemFields -> RawValues]
    /\ read = NoRead

NextItem == \E field \in ItemFields : ReadField(field)

SpecItem == InitItem /\ [][NextItem]_vars

----------------------------------------------------------------------------
(* The transport request of the detail client: FundaPlaywrightClient.request under
   @retry(stop=stop_after_attempt(3), wait=wait_fixed(1)), called through get() by
   get_house_detail_info *)

STOP_AFTER_ATTEMPT == 3
WAIT_FIXED == 1

\* what one attempt of request() comes to: the HTTP call raises, or it answers with
\* status 200 or with another status
AttemptOutcomes == {"raises", "status_200", "status_other"}

Str_html == "html"

\* the body of request() once the HTTP call has answered: None for a status other
\* than 200 (the bare return), the text of the response otherwise
RequestBody(outcome) == IF outcome = "status_200" THEN Some(Str_html) ELSE None

\* what tenacity retries on when no retry= is given: an attempt that raised
ShouldRetry(outcome) == outcome = "raises"

\* stop_after_attempt(3)
StopAfterAttempt(n) == n >= STOP_AFTER_ATTEMPT

\* a call of get_house_detail_info that has returned
Returned(content) ==
    [attempts |-> attempt_log', waited |-> waited, content |-> content]

\* get_house_detail_info(uri) is called: the first attempt of request() begins
GetHouseDetailInfo ==
    /\ req_pc = "idle"
    /\ Len(request_log) < MaxRequests
    /\ req_pc' = "attempt"
    /\ attempt_number' = 1
    /\ attempt_log' = <<>>
    /\ waited' = 0
    /\ UNCHANGED <<request_log, outsideRequest>>

\* an attempt ends. An attempt that is not retried returns what request() returned;
\* one that is retried waits, unless it was the last: then tenacity raises RetryError,
\* which get_house_detail_info catches to return None
AttemptEnds(outcome) ==
    /\ req_pc = "attempt"
    /\ attempt_log' = Append(attempt_log, outcome)
    /\ IF ~ShouldRetry(outcome)
       THEN /\ request_log' = Append(request_log, Returned(RequestBody(outcome)))
            /\ req_pc' = "idle"
       ELSE IF StopAfterAttempt(attempt_number)
       THEN /\ request_log' = Append(request_log, Returned(None))
            /\ req_pc' = "idle"
       ELSE /\ req_pc' = "wait"
            /\ UNCHANGED request_log
    /\ UNCHANGED <<attempt_number, waited, outsideRequest>>

\* wait_fixed(1) is over: the next attempt begins
WaitIsOver ==
    /\ req_pc = "wait"
    /\ waited' = waited + WAIT_FIXED
    /\ attempt_number' = attempt_number + 1
    /\ req_pc' = "attempt"
    /\ UNCHANGED <<attempt_log, request_log, outsideRequest>>

InitRequest ==
    /\ InitDb /\ InitHist /\ InitNoTx /\ InitNoClaim /\ InitCrawler /\ InitNoFetch
    /\ InitNoManager /\ InitNoPages /\ InitNoRun /\ InitNoItem /\ InitNoClient
    /\ InitNoRequest

NextRequest ==
    \/ GetHouseDetailInfo
    \/ \E outcome \in AttemptOutcomes : AttemptEnds(outcome)
    \/ WaitIsOver

SpecRequest == InitRequest /\ [][NextRequest]_vars

----------------------------------------------------------------------------
(* One listing crawled over and over: the pass of _fetch_parse_and_store_detail for
   one reference, made with nothing else running, at the time the crawler's clock
   shows.  The site's content does not change: a page of a listing is the same page
   at every crawl. *)

\* what _fetch_and_parse_detail returns for a page that is neither empty nor a
\* captcha page and on which extraction does not raise
ParsedDetail(id, html) ==
    LET house_info == extract_details(id, html)
    IN IF IsNone(house_info) THEN None
       ELSE IF is_partial_failure(Val(house_info)) THEN Some(MarkPartial(Val(house_info)))
       ELSE house_info

\* the record _fetch_parse_and_store_detail hands to store_listing: the merged
\* record, or the tombstone when there is no result
RecordToStore(detail_ref, html, t) ==
    LET house_info == ParsedDetail(detail_ref.house_id, html)
    IN IF ~IsNone(house_info)
       THEN MergedRecord(InitialData(detail_ref, t), Val(house_info))
       ELSE Tombstone(detail_ref)

\* the pages the site serves for a listing: the listing's page, or a page the
\* pre-check turns down
SitePages == {FullPage, OffTypePage}

\* _fetch_parse_and_store_detail(detail_ref) for the listing id, in detail mode (with
\* the listing's data) or in update mode (without)
CrawlListing(id, with_listing, html) ==
    /\ now < MaxCalls
    /\ UpsertListingTx(ListingItem(RecordToStore(Reference(id, with_listing), html, clock)))
    /\ UNCHANGED outsideStore

InitRecrawl == InitStore

NextRecrawl ==
    \/ \E id \in ListingIds, with_listing \in BOOLEAN, html \in SitePages :
          CrawlListing(id, with_listing, html)
    \/ Tick

SpecRecrawl == InitRecrawl /\ [][NextRecrawl]_vars

----------------------------------------------------------------------------
(* An update-mode run and the queue: main() calls crawler.start(), which in update
   mode claims the due listings of the active queue and hands their references to
   the detail stage, and the active queue is managed again after the run (by main()
   itself, or by the next --run-etl job when the run was halted). *)

\* FundaPgStore.update_limit (funda_store.py:79)
UPDATE_LIMIT == 100

\* the rows RETURNING gives, taken in the order of their ids
InIdOrder(S) ==
    [i \in 1..Cardinality(S) |-> CHOOSE id \in S : Cardinality({j \in S : j < id}) = i - 1]

\* _run_update_pipeline up to the first await of the detail stage:
\* get_available_listings() claims the due rows, and a reference without listing data
\* is made of each; with no row claimed the pipeline returns
RunUpdatePipeline ==
    /\ fetch_pc = "idle"
    /\ LET ts == now + 1
       IN /\ now' = ts
          /\ \E due_listings \in LimitedSubsets(DueListings(active, ts), UPDATE_LIMIT) :
                /\ active' = Restrict(active, DOMAIN active \ due_listings)
                /\ Record("get", 0, <<>>, UPDATE_LIMIT, ts, due_listings)
                /\ LET available_listings == InIdOrder(due_listings)
                   IN /\ detail_list' = [r \in 1..Len(available_listings) |->
                                            Reference(available_listings[r], FALSE)]
                      /\ tasks' = [r \in 1..Len(available_listings) |->
                                      PendingTask(detail_list'[r])]
                /\ fetch_pc' = IF due_listings = {} THEN "returned" ELSE "loop"
    /\ UNCHANGED <<listings, snapshots, batch_i, semaphore, error_html, delays, statvars,
                   cookievars, txvars, claimvars, crawlvars, sidevars>>

\* the run is over: the detail stage has returned, or it was halted and the tasks
\* left behind have been cancelled
RunIsOver ==
    /\ fetch_pc \in {"returned", "halted"}
    /\ \A r \in Refs : tasks[r].pc \in {"pending", "done", "raised", "cancelled"}

\* manage_active_listings after the run
ManageAfterRun(update_interval_days) ==
    /\ RunIsOver
    /\ call.op # "manage"
    /\ ManageActiveListings(update_interval_days)

\* a database of MaxRefs listings, each with one snapshot that reads as available
\* and a queue row, due or not; the crawler as __init__ leaves it, with the cookie
\* the client was made with
InitUpdate ==
    /\ snapshots = [i \in RefIds |-> NewSnapshotRow(i, AvailableItem(i), 0)]
    /\ listings = [i \in RefIds |-> [current_snapshot_id |-> i, last_seen_at |-> 0,
                                     address_city |-> None]]
    /\ active \in [RefIds -> {0, MaxClock}]
    /\ now = 0
    /\ InitHist /\ InitNoTx /\ InitNoClaim /\ InitCrawler
    /\ InitNoManager /\ InitNoPages /\ InitNoRun /\ InitNoItem /\ InitNoRequest
    /\ InitClient
    /\ detail_list = <<>>
    /\ fetch_pc = "idle"
    /\ batch_i = 0
    /\ tasks = <<>>
    /\ semaphore = MAX_CONCURRENCY_NUM
    /\ error_html = {}
    /\ delays = 0
    /\ snapshots_stored = 0
    /\ error_html_saved = 0
    /\ ip_block_count = 0
    /\ parsing_failures = 0
    /\ tombstones_created = 0
    /\ cookie_update_attempts = 0
    /\ failure_reports = 0
    /\ forced_refreshes = 0
    /\ cookie_data = RefreshedCookie(FirstCookieString, 0, None)

NextUpdate ==
    \/ RunUpdatePipeline
    \/ BatchSleep
    \/ BatchGather
    \/ \E r \in RefIds : TaskAcquire(r)
    \/ \E r \in RefIds, html \in HtmlPages : FetchReturns(r, html)
    \/ \E r \in RefIds : ArchiveDone(r)
    \/ \E r \in RefIds : RefreshDone(r)
    \/ \E r \in RefIds, raises \in BOOLEAN : StoreReturns(r, raises)
    \/ BatchDone
    \/ FetchLoopEnds
    \/ \E r \in RefIds : TaskCancelled(r)
    \/ \E d \in Intervals : ManageAfterRun(d)

SpecUpdate == InitUpdate /\ [][NextUpdate]_vars

----------------------------------------------------------------------------
(* Properties of the sequential store (SpecStore) *)

\* the rows of one listing, in the order they were inserted
RowsOf(snaps, id) == {i \in 1..Len(snaps) : snaps[i].listing_id = id}
MaxOf(S) == CHOOSE m \in S : \A x \in S : x <= m
\* the most recently inserted snapshot of a listing (0: it has none)
MostRecent(snaps, id) == IF RowsOf(snaps, id) = {} THEN 0 ELSE MaxOf(RowsOf(snaps, id))

SameContentTwice ==
    /\ call.op = "upsert"
    /\ prevCall.op = "upsert"
    /\ call.listing_id = prevCall.listing_id
    /\ CoreVolatileData(call.item) = CoreVolatileData(prevCall.item)

\* C1: two successive upsert_listing calls for one listing with the same status, price
\* and attribute blob leave one snapshot row for that content: the second call inserts
\* no row, the two calls together insert at most one, and the listing's most recent
\* snapshot carries that content.
C1_IdempotentUpsert ==
    SameContentTwice =>
        /\ snapshots = pre.snapshots
        /\ Len(snapshots) - prevCall.nsnap_before <= 1
        /\ MostRecent(snapshots, call.listing_id) # 0
        /\ LET r == snapshots[MostRecent(snapshots, call.listing_id)]
           IN [status |-> r.status, price |-> r.price, details_jsonb |-> r.details_jsonb]
                  = CoreVolatileData(call.item)

\* the first of the two calls wrote the snapshot, the second found it
C1_Witness ==
    /\ SameContentTwice
    /\ Len(snapshots) = prevCall.nsnap_before + 1
    /\ call.item.status = Some(Str_Available)

SnapshotInserted ==
    /\ Len(snapshots) = Len(pre.snapshots) + 1
    /\ snapshots[Len(snapshots)].listing_id = call.listing_id
    /\ snapshots[Len(snapshots)].row_hash = RowHash(call.item)

HashDiffersFromMostRecent ==
    \/ MostRecent(pre.snapshots, call.listing_id) = 0
    \/ pre.snapshots[MostRecent(pre.snapshots, call.listing_id)].row_hash # RowHash(call.item)

\* C2: an upsert_listing call inserts a snapshot row if and only if the computed hash
\* differs from the hash of the listing's most recent snapshot (or there is none); when
\* the hash is equal, nothing changes but the listing row's last_seen_at.
C2_InsertIffHashDiffers ==
    call.op = "upsert" =>
        /\ SnapshotInserted <=> HashDiffersFromMostRecent
        /\ ~HashDiffersFromMostRecent =>
              /\ snapshots = pre.snapshots
              /\ active = pre.active
              /\ DOMAIN listings = DOMAIN pre.listings
              /\ \A i \in DOMAIN listings :
                    /\ listings[i].current_snapshot_id = pre.listings[i].current_snapshot_id
                    /\ i # call.listing_id => listings[i] = pre.listings[i]

\* a call that found its hash on the most recent of two or more snapshots
C2_Witness ==
    /\ call.op = "upsert"
    /\ ~HashDiffersFromMostRecent
    /\ Cardinality(RowsOf(snapshots, call.listing_id)) >= 2
    /\ listings[call.listing_id].last_seen_at # pre.listings[call.listing_id].last_seen_at

\* C3: no upsert_listing call modifies or deletes an existing snapshot row: every row
\* present before the call is present after it, unchanged.
C3_SnapshotsAppendOnly ==
    call.op = "upsert" =>
        /\ Len(snapshots) >= Len(pre.snapshots)
        /\ \A i \in 1..Len(pre.snapshots) : snapshots[i] = pre.snapshots[i]

\* a call that wrote a changed status over an existing snapshot of the listing
C3_Witness ==
    /\ call.op = "upsert"
    /\ Len(snapshots) = Len(pre.snapshots) + 1
    /\ MostRecent(pre.snapshots, call.listing_id) # 0
    /\ pre.snapshots[MostRecent(pre.snapshots, call.listing_id)].status # call.item.status

\* C4: after any sequence of upsert_listing calls, a listing row's current_snapshot_id
\* is the listing's most recently inserted snapshot, and a listing with a snapshot has
\* a listing row.
C4_PointerIsMostRecent ==
    /\ \A id \in DOMAIN listings :
          listings[id].current_snapshot_id = MostRecent(snapshots, id)
    /\ \A i \in 1..Len(snapshots) : snapshots[i].listing_id \in DOMAIN listings

\* a call that repointed a listing from an older snapshot to the new one
C4_Witness ==
    /\ call.op = "upsert"
    /\ call.listing_id \in DOMAIN pre.listings
    /\ pre.listings[call.listing_id].current_snapshot_id # 0
    /\ listings[call.listing_id].current_snapshot_id = Len(snapshots)
    /\ listings[call.listing_id].current_snapshot_id
          # pre.listings[call.listing_id].current_snapshot_id

\* C5 as stated: a listing has at most one snapshot row per distinct content hash.
C5_OneRowPerHash ==
    \A i, j \in 1..Len(snapshots) :
        (snapshots[i].listing_id = snapshots[j].listing_id
            /\ snapshots[i].row_hash = snapshots[j].row_hash) => i = j

\* C5: after any sequence of upsert_listing calls, no two consecutive snapshots of a
\* listing (in insertion order) carry the same content hash; a state the listing
\* returns to after a change gets a row of its own.
C5_ConsecutiveRowsDiffer ==
    \A i, j \in 1..Len(snapshots) :
        (/\ i < j
         /\ snapshots[i].listing_id = snapshots[j].listing_id
         /\ \A k \in (i + 1)..(j - 1) : snapshots[k].listing_id # snapshots[i].listing_id)
        => snapshots[i].row_hash # snapshots[j].row_hash

\* a listing that went from a state to another and back: three rows, two hashes
C5_Witness ==
    \E id \in ListingIds :
        /\ Cardinality(RowsOf(snapshots, id)) = 3
        /\ Cardinality({snapshots[i].row_hash : i \in RowsOf(snapshots, id)}) = 2

----------------------------------------------------------------------------
(* Properties of the queue (SpecQueue) *)

\* C8: a get_listings_for_update(limit) call returns at most limit listings, each of
\* them a queue row with next_update_ts <= now when claimed; the returned rows are gone
\* from the queue when the statement ends, and every other queue row is unchanged.
C8_ClaimIsBoundedDueAndRemoved ==
    call.op = "get" =>
        /\ Cardinality(call.ret) <= call.arg
        /\ \A id \in call.ret :
              /\ id \in DOMAIN pre.active
              /\ pre.active[id] <= call.ts
              /\ id \notin DOMAIN active
        /\ DOMAIN active = DOMAIN pre.active \ call.ret
        /\ \A id \in DOMAIN active : active[id] = pre.active[id]
        /\ listings = pre.listings
        /\ snapshots = pre.snapshots

\* a call that returned a due row and left another row in the queue
C8_Witness ==
    /\ call.op = "get"
    /\ call.ret # {}
    /\ DOMAIN active # {}

\* a status reads as available when it contains "available" or "beschikbaar",
\* whatever the letter case
ReadsAsAvailable(status) ==
    /\ status # None
    /\ \E w \in {Pat_available, Pat_beschikbaar} :
          \E i \in 0..(Len(Val(status)) - Len(w)) :
              \A j \in 1..Len(w) : Lower(Val(status)[i + j]) = w[j]

HasCurrentSnapshot(id) ==
    /\ id \in DOMAIN listings
    /\ listings[id].current_snapshot_id # 0

CurrentSnapshotStatus(id) == snapshots[listings[id].current_snapshot_id].status

AvailableAreQueued ==
    \A id \in ListingIds :
        (HasCurrentSnapshot(id) /\ ReadsAsAvailable(CurrentSnapshotStatus(id)))
            => id \in DOMAIN active

NewRowsAreDueAfterInterval ==
    \A id \in DOMAIN active \ DOMAIN pre.active : active[id] = call.ts + call.arg

----------------------------------------------------------------------------
(* Properties of concurrent writers (SpecUpsertConc) *)

RanConcurrently(v, w) == v \in tx[w].overlapped \/ w \in tx[v].overlapped

\* C6: when two upsert_listing calls for the same listing with identical content run
\* concurrently, each in its own transaction, one snapshot row results: the two calls
\* do not both insert a row.
C6_ConcurrentIdenticalUpsertsInsertOnce ==
    \A v, w \in Writers :
        (/\ v # w
         /\ tx[v].pc = "done"
         /\ tx[w].pc = "done"
         /\ RanConcurrently(v, w)
         /\ tx[v].listing_id = tx[w].listing_id
         /\ CoreVolatileData(tx[v].item) = CoreVolatileData(tx[w].item))
        => ~(tx[v].new_snapshot_id # 0 /\ tx[w].new_snapshot_id # 0)

----------------------------------------------------------------------------
(* Properties of concurrent workers (SpecClaimConc) *)

\* C7: under any interleaving of concurrent get_listings_for_update calls, no listing
\* is returned to more than one caller.
C7_NoListingClaimedTwice ==
    \A v, w \in Workers : v # w => claim[v].ret \cap claim[w].ret = {}

\* two calls that ran at the same time and each came back with a listing
C7_Witness ==
    \E v, w \in Workers :
        /\ v # w
        /\ claim[v].pc = "done" /\ claim[w].pc = "done"
        /\ v \in claim[w].overlapped
        /\ claim[v].ret # {} /\ claim[w].ret # {}

----------------------------------------------------------------------------
(* Properties of the detail-mode run (SpecDetail) *)

\* C10: in a detail-mode run, whatever the pages (ids repeated within a page or across
\* pages included), a fetch task is started at most once per listing id, and every id
\* whose task is started, or whose reference waits for its batch, is already in
\* processed_listing_ids.
C10_EachIdFetchedAtMostOnce ==
    /\ \A i, j \in 1..Len(started) : started[i] = started[j] => i = j
    /\ \A i \in 1..Len(started) : started[i] \in processed_listing_ids
    /\ \A i \in 1..Len(detail_references) : detail_references[i] \in processed_listing_ids
    /\ \A id \in dropped : id \in processed_listing_ids

\* a run that met an id again on a later page, dropped it, and fetched it once
C10_Witness ==
    /\ crawl_pc = "done"
    /\ page_count = 2
    /\ \E id \in dropped : \E i \in 1..Len(started) : started[i] = id

----------------------------------------------------------------------------
(* Properties of the detail stage (SpecFetch) *)

\* the snapshot rows of the listing of reference r
RowsOfRef(r) == RowsOf(snapshots, detail_list[r].house_id)

FatalTasks == {r \in Refs : tasks[r].outcome = "fatal"}

\* C11: a detail fetch whose body carries the captcha text takes the IPBlockError
\* path: at the step at which the body arrives the block counter goes up by one, one
\* failure is reported to the cookie manager and the task stands in the refresh or has
\* raised the halt; and from then on no extracted record exists for the reference:
\* nothing but the tombstone is ever handed to the store for it, it is never counted
\* as a stored snapshot, and every snapshot row of its listing is the tombstone's.
C11_CaptchaTakesBlockPath ==
    [][\A r \in Refs :
          /\ (tasks[r].html = None /\ tasks'[r].html = Some(CaptchaPage)) =>
                /\ ip_block_count' = ip_block_count + 1
                /\ failure_reports' = failure_reports + 1
                /\ tasks'[r].pc \in {"refresh", "raised"}
          /\ tasks'[r].html = Some(CaptchaPage) =>
                /\ tasks'[r].house_info = None
                /\ tasks'[r].sent \in {None, Some(Tombstone(detail_list[r]))}
                /\ tasks'[r].outcome # "stored"
                /\ \A i \in 1..Len(snapshots') :
                      snapshots'[i].listing_id = detail_list[r].house_id =>
                          snapshots'[i].status = Some(Str_ParseFailed)]_vars

\* a reference that met the captcha page, went through the cookie refresh and whose
\* task has ended
C11_Witness ==
    \E r \in Refs :
        /\ tasks[r].html = Some(CaptchaPage)
        /\ tasks[r].pc = "done"
        /\ ip_block_count > 0

C13_FatalBlockHaltsRun ==
    [][/\ (\E r \in Refs : tasks'[r].outcome = "fatal") => fetch_pc' = "halted"
       /\ fetch_pc = "halted" =>
             /\ fetch_pc' = "halted"
             /\ batch_i' = batch_i
             /\ delays' = delays
             /\ \A r \in Refs : tasks[r].pc = "pending" => tasks'[r].pc = "pending"
             /\ Len(snapshots') >= Len(snapshots)
             /\ SubSeq(snapshots', 1, Len(snapshots)) = snapshots
             /\ DOMAIN listings \subseteq DOMAIN listings'
       /\ \A r \in Refs :
             Cardinality({i \in 1..Len(snapshots') :
                             snapshots'[i].listing_id = detail_list[r].house_id}) <= 1]_vars

\* the halt came in a batch after one whose record is in the store
C13_Witness ==
    /\ fetch_pc = "halted"
    /\ \E r, q \in Refs :
          /\ tasks[r].outcome = "fatal"
          /\ tasks[q].batch < tasks[r].batch
          /\ tasks[q].outcome = "stored"
          /\ RowsOfRef(q) # {}

HasPrefix(text, prefix) ==
    Len(text) >= Len(prefix) /\ SubSeq(text, 1, Len(prefix)) = prefix

\* the tasks that ended in a given way
Ended(outcome) == {r \in Refs : tasks[r].outcome = outcome}

\* C14: a page whose extraction gives a record with no price is handed to the store
\* with its description prefixed by "[PARTIAL_PARSE] ", and its HTML is archived.
C14_PartialRecordIsMarked ==
    \A r \in Refs :
        (tasks[r].html = Some(NoPricePage) /\ tasks[r].pc \in {"store", "done"}) =>
            /\ tasks[r].sent # None
            /\ HasPrefix(Val(Get(Val(tasks[r].sent), "description")), Str_PartialParse)
            /\ detail_list[r].house_id \in error_html

\* C15: when extraction returns no result for a page that is neither empty nor the
\* captcha page, the parsing-failure counter goes up at once; when the task reaches
\* the store call the cleaned HTML is archived and counted and the record handed over
\* is the tombstone, the listing id with the status "[PARSE_FAILED]"; and when the
\* store call has returned, the tombstone's row is in the store and counted.
C15_NoResultMakesTombstone ==
    /\ \A r \in Refs :
          tasks[r].html = Some(OffTypePage) =>
              /\ tasks[r].reason = "no_result"
              /\ tasks[r].pc \in {"store", "done"} =>
                    /\ detail_list[r].house_id \in error_html
                    /\ tasks[r].house_info = None
                    /\ tasks[r].sent # None
                    /\ DOMAIN Val(tasks[r].sent) = {"listing_id", "status"}
                    /\ Val(tasks[r].sent)["listing_id"] = Some(detail_list[r].house_id)
                    /\ Val(tasks[r].sent)["status"] = Some(Str_ParseFailed)
              /\ tasks[r].outcome = "tombstone" =>
                    /\ detail_list[r].house_id \in DOMAIN listings
                    /\ \E i \in RowsOfRef(r) : snapshots[i].status = Some(Str_ParseFailed)
    /\ parsing_failures = Cardinality({r \in Refs : tasks[r].html = Some(OffTypePage)})
    /\ error_html_saved = Cardinality(error_html)
    /\ tombstones_created = Cardinality(Ended("tombstone"))

\* an off-type page whose tombstone is in the store
C15_Witness ==
    \E r \in Refs :
        /\ tasks[r].html = Some(OffTypePage)
        /\ tasks[r].outcome = "tombstone"
        /\ tombstones_created > 0 /\ parsing_failures > 0 /\ error_html_saved > 0

\* C16: a fetch that returns an empty body ends the task with no store call: nothing
\* is handed to the store, the listing has no row, nothing is archived, and the
\* snapshots-stored and tombstones-created counters count only the store calls that
\* other references completed.
C16_EmptyBodyIsSkipped ==
    /\ \A r \in Refs :
          tasks[r].html = Some(EmptyBody) =>
              /\ tasks[r].pc = "done"
              /\ tasks[r].outcome = "no_store"
              /\ tasks[r].sent = None
              /\ RowsOfRef(r) = {}
              /\ detail_list[r].house_id \notin DOMAIN listings
              /\ detail_list[r].house_id \notin error_html
    /\ snapshots_stored = Cardinality(Ended("stored"))
    /\ tombstones_created = Cardinality(Ended("tombstone"))

\* an empty body in a call in which another reference was stored
C16_Witness ==
    \E r, q \in Refs :
        /\ tasks[r].html = Some(EmptyBody)
        /\ tasks[r].outcome = "no_store"
        /\ tasks[q].outcome = "stored"
        /\ snapshots_stored = 1

\* the pages on which a reference fails without halting the run
FailingPages == {EmptyBody, OffTypePage, BrokenPage}

\* the batch loop can take its next step, or a task of the batch can: its await comes
\* back, or it waits for a permit and one is free
RunCanGoOn ==
    \/ fetch_pc \in {"loop", "sleep"}
    \/ /\ fetch_pc = "gather"
       /\ \/ \A r \in BatchOf(batch_i) : tasks[r].pc = "done"
          \/ \E r \in BatchOf(batch_i) :
                \/ tasks[r].pc \in {"fetch", "archive", "refresh", "store"}
                \/ tasks[r].pc = "acquire" /\ semaphore > 0

\* C17: a failure of one reference that is not the fatal halt (an empty body, a page
\* with no result, an exception in extraction, an error of the store) stops nothing:
\* the run halts and tasks are cut short only after the fatal halt; short of it the
\* call is never stuck before it returns (some task or the batch loop can always go
\* on), and when it returns every reference was fetched and its task ended, a
\* reference with a full page being stored unless its own store call failed.
C17_FailuresStayLocal ==
    /\ fetch_pc = "halted" <=> FatalTasks # {}
    /\ FatalTasks = {} => \A r \in Refs : tasks[r].pc \notin {"raised", "cancelled"}
    /\ fetch_pc \notin {"returned", "halted"} => RunCanGoOn
    /\ fetch_pc = "returned" =>
          \A r \in Refs :
              /\ tasks[r].pc = "done"
              /\ tasks[r].html # None
              /\ tasks[r].html = Some(FullPage) =>
                     tasks[r].outcome \in {"stored", "store_error"}
              /\ tasks[r].outcome = "stored" => RowsOfRef(r) # {}

\* a call that returned with a failed reference and, after it in the same batch and
\* in a later batch, stored references
C17_Witness ==
    /\ fetch_pc = "returned"
    /\ \E r, q, u \in Refs :
          /\ r < q /\ q < u
          /\ tasks[r].batch = tasks[q].batch /\ tasks[q].batch < tasks[u].batch
          /\ tasks[r].html \in {Some(page) : page \in FailingPages}
          /\ tasks[q].outcome = "stored"
          /\ tasks[u].outcome = "stored"

\* C18: at every moment the tasks between the acquisition and the release of the
\* semaphore number at most MAX_CONCURRENCY_NUM, and the permits left are exactly those
\* that no such task holds: a task that has left the block on any path (return, IP
\* block and refresh, fatal halt, cancellation) has given its permit back.
C18_PermitsBoundedAndReturned ==
    /\ Cardinality(InFlight) <= MAX_CONCURRENCY_NUM
    /\ semaphore >= 0
    /\ semaphore = MAX_CONCURRENCY_NUM - Cardinality(InFlight)

\* every permit is out, during an IP block's cookie refresh, and a task waits for one
C18_Witness ==
    /\ semaphore = 0
    /\ \E r, q \in Refs : tasks[r].pc = "acquire" /\ tasks[q].pc = "refresh"

\* the number of the last batch that gather has started
StartedBatches ==
    IF \A r \in Refs : tasks[r].batch = 0 THEN 0
    ELSE CHOOSE b \in {tasks[r].batch : r \in Refs} : \A r \in Refs : tasks[r].batch <= b

\* C19: the references run in consecutive batches of at most BatchSize, in the order
\* of the list, each in one batch (reference r in batch ceil(r / BatchSize)); the tasks
\* of a batch are started together, and only when every task of the batches before
\* has ended; and one delay has been slept before every batch but the first.
C19_BatchesInOrderWithDelays ==
    /\ \A r \in Refs :
          /\ tasks[r].batch \in {0, ((r - 1) \div BatchSize) + 1}
          /\ tasks[r].pc = "pending" <=> tasks[r].batch = 0
    /\ \A r, q \in Refs :
          /\ (r < q /\ tasks[q].batch # 0) => tasks[r].batch # 0
          /\ ((r - 1) \div BatchSize = (q - 1) \div BatchSize) =>
                 tasks[r].batch = tasks[q].batch
          /\ (tasks[r].batch # 0 /\ tasks[r].batch < tasks[q].batch) => tasks[r].pc = "done"
    /\ \A b \in 1..StartedBatches :
          Cardinality({r \in Refs : tasks[r].batch = b}) \in 1..BatchSize
    /\ delays = IF fetch_pc = "sleep" THEN StartedBatches
                ELSE IF StartedBatches = 0 THEN 0 ELSE StartedBatches - 1

\* a call that ran two batches, the second one after a delay
C19_Witness ==
    /\ fetch_pc = "returned"
    /\ StartedBatches = 2
    /\ delays = 1

\* C20: for a successful extraction the record handed to the store carries every
\* detail field with the detail's value, also where the listing's flat dict has the
\* same key, and every key that only the listing's flat dict has, with the listing's
\* value (the listing's id under the key listing_id).
C20_DetailOverlaysListing ==
    \A r \in Refs :
        (tasks[r].house_info # None /\ tasks[r].sent # None) =>
            LET record == Val(tasks[r].sent)
                detail == to_dict_items(Val(tasks[r].house_info))
                flat == IF detail_list[r].listing_data = None THEN <<>>
                        ELSE Val(detail_list[r].listing_data)
            IN /\ \A k \in DOMAIN detail : k \in DOMAIN record /\ record[k] = detail[k]
               /\ \A k \in DOMAIN flat \ DOMAIN detail :
                     k \in DOMAIN record /\ record[k] = flat[k]
               /\ "id" \in DOMAIN flat =>
                     "listing_id" \in DOMAIN record /\ record["listing_id"] = flat["id"]

\* a stored record whose status is the detail page's, not the listing's, and whose
\* rent_price is the listing's
C20_Witness ==
    \E r \in Refs :
        /\ tasks[r].html = Some(FullPage)
        /\ detail_list[r].listing_data # None
        /\ tasks[r].outcome = "stored"
        /\ Val(detail_list[r].listing_data)["status"] = Some(Str_Available)
        /\ Val(tasks[r].sent)["status"] = Some(<<"R","e","n","t","e","d">>)
        /\ Val(tasks[r].sent)["rent_price"] = Some(1300)

----------------------------------------------------------------------------
(* Properties of the cookie manager (SpecCookie) *)

\* C21: the validity test of get_cookie answers true exactly when a cookie is cached,
\* its age at the call is less than the lifetime and its failure count is less than
\* MAX_COOKIE_FAILURE_COUNT; an age equal to the lifetime or a count equal to the
\* threshold makes it invalid.
C21_ValidIffFreshAndFewFailures ==
    cookie_call.op \in {"cached", "fetch"} =>
        LET data == cookie_call.pre
        IN cookie_call.valid <=>
              /\ data # None
              /\ cookie_call.t - Val(data).timestamp < cookie_lifetime
              /\ Val(data).failure_count < MAX_COOKIE_FAILURE_COUNT

\* a call that found a cookie exactly as old as its lifetime, with no failure counted,
\* and found it invalid
C21_Witness ==
    /\ cookie_call.op = "fetch"
    /\ ~cookie_call.force
    /\ cookie_call.pre # None
    /\ cookie_call.t - Val(cookie_call.pre).timestamp = cookie_lifetime
    /\ Val(cookie_call.pre).failure_count = 0
    /\ ~cookie_call.valid

\* the cookie was valid at time t
WasValid(data, t) ==
    /\ data # None
    /\ t - Val(data).timestamp < cookie_lifetime
    /\ Val(data).failure_count < MAX_COOKIE_FAILURE_COUNT

C23_ReportFailureOnlyCounts ==
    [][(ReportFailureCall /\ cookie_data # None) =>
              /\ cookie_data' # None
              /\ Val(cookie_data').failure_count = Val(cookie_data).failure_count + 1
              /\ Val(cookie_data').last_failure_timestamp = Some(clock)
              /\ Val(cookie_data').cookie_string = Val(cookie_data).cookie_string
              /\ Val(cookie_data').timestamp = Val(cookie_data).timestamp
              /\ cookie_file' = cookie_data'
              /\ launches' = launches
              /\ issued' = issued
              /\ callers' = callers]_vars

\* the failure that brings the count to the threshold: the cookie is still the old one
C23_Witness ==
    /\ cookie_call.op = "report_failure"
    /\ cookie_call.pre # None
    /\ Val(cookie_call.pre).failure_count = MAX_COOKIE_FAILURE_COUNT - 1
    /\ cookie_data # None
    /\ Val(cookie_data).failure_count = MAX_COOKIE_FAILURE_COUNT
    /\ Val(cookie_data).cookie_string = Val(cookie_call.pre).cookie_string
    /\ launches = 0

\* C24: at most one get_cookie call is inside a refresh at any time, and no browser is
\* launched while another refresh is under way.
C24_RefreshesAreSerialized ==
    Cardinality(Refreshing) <= 1

----------------------------------------------------------------------------
(* Properties of the listing generator (SpecPages) *)

\* the properties yielded so far
YieldedProperties ==
    UNION {Val(fetches[i].yielded) : i \in {j \in 1..Len(fetches) : fetches[j].yielded # None}}

AllSucceeded == \A i \in 1..Len(fetches) : fetches[i].outcome = "ok"

\* C25: with start_page 1 and no end_page, a total T > 0 and no failing page, the
\* generator ends after exactly ceil(T/15) requests, for the pages 1, 2, ... in this
\* order, each yielding its properties, all T of them together; and at no time is a
\* request for a later page out before the first response has set the page count, nor
\* are two requests out at once.
C25_AllPagesInOrder ==
    /\ Len(fetches) >= 2 => (total_pages # None /\ fetches[1].outcome # "pending")
    /\ \A i \in 1..Len(fetches) : fetches[i].outcome = "pending" => i = Len(fetches)
    /\ (gen_pc = "done" /\ start_page = 1 /\ end_page = None /\ total_found > 0
        /\ AllSucceeded) =>
           /\ (Len(fetches) - 1) * PageSize < total_found
           /\ total_found <= Len(fetches) * PageSize
           /\ \A i \in 1..Len(fetches) :
                  /\ fetches[i].page = i
                  /\ fetches[i].yielded # None
           /\ YieldedProperties = 1..total_found

\* a search with 20 results: two requests, 20 properties
C25_Witness ==
    /\ gen_pc = "done"
    /\ start_page = 1
    /\ end_page = None
    /\ total_found = PageSize + 5
    /\ AllSucceeded
    /\ Len(fetches) = 2
    /\ Cardinality(YieldedProperties) = PageSize + 5

\* the pages requested after the first
LaterPages == {fetches[i].page : i \in 2..Len(fetches)}

\* C26: every request carries the offset (page - 1) * 15, a multiple of 15; the pages
\* requested after the first are pages p with start_page < p < end_page and
\* p <= total pages (the total of the first response, rounded up), each once and in
\* order, and they are all of these pages when the generator has ended.
C26_OffsetsAndPageRange ==
    /\ \A i \in 1..Len(fetches) :
          /\ fetches[i].from_ = (fetches[i].page - 1) * PageSize
          /\ fetches[i].from_ % PageSize = 0
          /\ fetches[i].page = start_page + i - 1
    /\ \A p \in LaterPages :
          /\ start_page < p
          /\ end_page # None => p < Val(end_page)
          /\ (p - 1) * PageSize < total_found
    /\ (gen_pc = "done" /\ Len(fetches) >= 1 /\ fetches[1].outcome = "ok") =>
          \A p \in start_page + 1 .. MaxEndPage + MaxStartPage :
              (/\ end_page # None => p < Val(end_page)
               /\ (p - 1) * PageSize < total_found) => p \in LaterPages

\* the configured end page lies beyond the last page, and the last page was requested
C26_Witness ==
    /\ gen_pc = "done"
    /\ end_page # None
    /\ Val(end_page) * PageSize > total_found + PageSize
    /\ Len(fetches) = 2
    /\ fetches[2].from_ = PageSize
    /\ fetches[2].outcome = "ok"

\* C27: a request that fails with PaginationLimitError is the last request of the
\* run.
C27_PaginationLimitEndsPaging ==
    \A i \in 1..Len(fetches) :
        fetches[i].outcome = "pagination_limit" => i = Len(fetches)

\* C28: a page after the first that fails with EmptyResponseError or with another
\* error yields no properties and does not end the page sequence: the generator goes
\* on to the next page, and it ends only when the last page of the range was
\* requested.
C28_FailedPageIsSkipped ==
    /\ \A i \in 2..Len(fetches) :
          fetches[i].outcome \in {"empty_response", "error"} =>
              /\ fetches[i].yielded = Some({})
              /\ i = Len(fetches) => gen_pc \in {"loop", "done"}
    /\ (gen_pc = "done" /\ Len(fetches) >= 1 /\ fetches[1].outcome = "ok") =>
          fetches[Len(fetches)].page + 1 >= EndPageBound(end_page, Val(total_pages))

\* page 2 failed with an empty response and page 3 was fetched after it
C28_Witness ==
    /\ Len(fetches) = 3
    /\ fetches[2].outcome = "empty_response"
    /\ fetches[2].yielded = Some({})
    /\ fetches[3].outcome = "ok"
    /\ Val(fetches[3].yielded) # {}

----------------------------------------------------------------------------
(* Properties of a run (SpecRun) *)

\* C29: no summary report is printed before the crawl mode has ended, and exactly one
\* has been printed once start has ended, whether the mode completed, the crawl type
\* was not supported, or the detail stage halted fatally.
C29_OneSummaryPerRun ==
    /\ run_pc \in {"init", "try", "listing", "pipeline"} => reports = 0
    /\ run_pc \in {"finished", "raised"} => reports = 1

\* the run ended on the fatal halt of the detail stage, after one refresh
C29_Witness ==
    /\ run_pc = "raised"
    /\ crawl_type = "update"
    /\ fetch_pc = "halted"
    /\ cookie_update_attempts = MAX_COOKIE_UPDATE_LIMIT
    /\ reports = 1

----------------------------------------------------------------------------
(* Properties of the cleaned fields (SpecItem) *)

\* C30: a read of a cleaned field never raises; a numeric field reads as the number
\* of a well-formed text (3250 for "E 3,250 /maand" as a rent, 118 for "118 mq" as an
\* area) and as 0 for a raw value that is missing, empty or otherwise invalid, and a
\* text field reads as "" for a raw value that is missing or invalid.
C30_ReadNeverRaises ==
    read.field # "" =>
        LET raw == raw_fields[read.field]
        IN /\ ~read.raised
           /\ (read.field = "monthly_rent" /\ raw = Some(Text(Txt_rent))) =>
                  read.number = 3250
           /\ (read.field = "living_area" /\ raw = Some(Text(Txt_area))) =>
                  read.number = 118
           /\ (read.field \in NumericFields /\ raw \in {None, Some(Text(<<>>)),
                                                        Some(Text(Txt_invalid))}) =>
                  read.number = 0
           /\ (read.field \notin NumericFields /\ raw \in {None, Some(Number(Txt_3250))}) =>
                  read.text = <<>>

----------------------------------------------------------------------------
(* Properties of the transport request (SpecRequest) *)

\* an attempt that gave no content: it raised, or the status was not 200
FailedAttempt(outcome) == outcome # "status_200"

\* C31: a call makes at most 3 attempts with a wait of one second between them, each
\* attempt but the last has failed, the last attempt either succeeded or was the
\* third (a failed attempt, error or non-success response, is retried until the
\* attempts are used up), and a call whose attempts all failed returns no content
\* without raising.
C31_FailedAttemptIsRetried ==
    \A i \in 1..Len(request_log) :
        LET r == request_log[i]
            n == Len(r.attempts)
        IN /\ n \in 1..STOP_AFTER_ATTEMPT
           /\ r.waited = (n - 1) * WAIT_FIXED
           /\ \A k \in 1..(n - 1) : FailedAttempt(r.attempts[k])
           /\ FailedAttempt(r.attempts[n]) => n = STOP_AFTER_ATTEMPT
           /\ IsNone(r.content) <=> FailedAttempt(r.attempts[n])

----------------------------------------------------------------------------
(* Properties of the repeated crawl (SpecRecrawl) *)

\* the content of a record as the site gave it: its status, its price and the
\* attributes of the JSONB column but the time of the crawl
SiteContent(data) ==
    <<data.status, data.price, data.details_jsonb.asking_price,
      data.details_jsonb.description>>

\* the last call crawled, in detail mode, a listing whose latest snapshot has the
\* content the site still shows
RecrawledUnchanged ==
    /\ call.op = "upsert"
    /\ ~IsNone(call.item.crawl_date)
    /\ \E i \in LatestRows(pre.snapshots, call.listing_id) :
          /\ ~IsNone(pre.snapshots[i].details_jsonb.crawl_date)
          /\ SiteContent(pre.snapshots[i]) = SiteContent(CoreVolatileData(call.item))

\* C32: a crawl of a listing through the listing/detail pipeline that finds the site
\* content of the listing's latest snapshot unchanged inserts no snapshot row.
C32_RecrawlInsertsNoSnapshot ==
    RecrawledUnchanged => /\ IsNone(call.ret)
                          /\ snapshots = pre.snapshots

\* the last call was an upsert_listing for a listing that had its row
UpsertOfKnownListing == call.op = "upsert" /\ call.listing_id \in DOMAIN pre.listings

\* C33: an upsert_listing for a listing that has its row leaves the row's static
\* attributes as they were, whatever static values the record carries: of that row
\* only last_seen_at and current_snapshot_id may change, and no other row changes.
C33_StaticWrittenOnFirstInsertOnly ==
    UpsertOfKnownListing =>
        /\ DOMAIN listings = DOMAIN pre.listings
        /\ \A id \in DOMAIN listings :
              /\ listings[id].address_city = pre.listings[id].address_city
              /\ id # call.listing_id => listings[id] = pre.listings[id]

\* a full record arrives for a listing whose row a tombstone made, and a snapshot is
\* written for it
C33_Witness ==
    /\ UpsertOfKnownListing
    /\ ~IsNone(call.ret)
    /\ ~IsNone(StaticData(call.item))
    /\ IsNone(pre.listings[call.listing_id].address_city)
    /\ \E i \in LatestRows(pre.snapshots, call.listing_id) :
          pre.snapshots[i].status = Some(Str_ParseFailed)

\* the listing price of a record: its rent_price, or else its asking_price
ListingPrice(item) ==
    IF ~IsNone(item.rent_price) THEN item.rent_price ELSE item.asking_price

\* the last call stored a merged record whose listing price and detail-page price
\* are both there and differ
StoredBothPrices ==
    /\ call.op = "upsert"
    /\ ~IsNone(call.ret)
    /\ ~IsNone(ListingPrice(call.item))
    /\ ~IsNone(call.item.price)
    /\ ListingPrice(call.item) # call.item.price

\* C37: the snapshot written for a merged record that carries a listing price and a
\* different detail-page price has the detail-page price in its price column and in
\* the data its hash is computed from.
C37_SnapshotUsesDetailPrice ==
    StoredBothPrices =>
        LET row == snapshots[Val(call.ret)]
        IN /\ row.price = call.item.price
           /\ row.row_hash =
                 calculate_row_hash([CoreVolatileData(call.item) EXCEPT
                                        !.price = call.item.price])

\* the first page could not be fetched or parsed
FirstPageFailed ==
    /\ Len(fetches) >= 1
    /\ fetches[1].outcome \in RaisedOutcomes \cup {"unparsed"}

\* the yielded pages for which _run_detail_pipeline comes to the detail stage, and so
\* to detail fetches and store calls: "if not page_listings: continue"
PagesForDetailStage ==
    {i \in 1..Len(fetches) : fetches[i].yielded # None /\ Val(fetches[i].yielded) # {}}

\* the generator has returned, or stands before a loop whose range is empty
EndsWithoutRequest ==
    \/ gen_pc = "done"
    \/ gen_pc = "loop" /\ page_num >= EndPageBound(end_page, Val(total_pages))

\* C39 as stated: when the first page cannot be fetched or parsed the generator ends
\* at once with no page yielded and no later page requested, and no page comes to
\* the detail stage.
C39_FirstPageFailureYieldsNothing ==
    FirstPageFailed =>
        /\ Len(fetches) = 1
        /\ fetches[1].yielded = None
        /\ gen_pc = "done"
        /\ PagesForDetailStage = {}

\* C39: when the first page cannot be fetched or parsed no later page is requested
\* and no page comes to the detail stage (no detail fetch, no store call); after an
\* exception (EmptyResponseError, PaginationLimitError or another) the generator has
\* ended with no page yielded, and after a response on which parsing broke one empty
\* page is yielded and the generator ends without another request.
C39_FirstPageFailureEndsPaging ==
    FirstPageFailed =>
        /\ Len(fetches) = 1
        /\ PagesForDetailStage = {}
        /\ fetches[1].outcome \in RaisedOutcomes =>
              /\ fetches[1].yielded = None
              /\ gen_pc = "done"
        /\ fetches[1].outcome = "unparsed" =>
              /\ fetches[1].yielded = Some({})
              /\ EndsWithoutRequest

\* the first page of a search with more than one page of results could not be
\* parsed, and the generator has ended after this one request
C39_Witness ==
    /\ gen_pc = "done"
    /\ Len(fetches) = 1
    /\ fetches[1].outcome = "unparsed"
    /\ fetches[1].yielded = Some({})
    /\ total_found > PageSize
    /\ end_page = None

----------------------------------------------------------------------------
(* Properties of the detail stage (SpecFetch): what a failed fetch leaves behind *)

\* extraction ran on the page of reference r and returned no result
ExtractionGaveNoResult(r) ==
    LET html == Val(tasks[r].html)
    IN /\ ~IsEmptyContent(html)
       /\ ~HasCaptchaMarker(html)
       /\ ~ExtractRaises(html)
       /\ IsNone(extract_details(detail_list[r].house_id, html))

\* C35: a tombstone is handed to the store only for a reference whose extraction ran
\* and returned no result; a reference whose fetch was IP-blocked and recovered by a
\* cookie refresh, or failed with an exception, writes none.
C35_TombstoneOnlyAfterNoResult ==
    \A r \in Refs :
        tasks[r].sent = Some(Tombstone(detail_list[r])) => ExtractionGaveNoResult(r)

\* the store calls of the detail stage that have returned without error: each moves
\* the database clock by one
AcceptedRecords == now

\* a step in which the store call of reference r returns without error
StoreCallReturned(r) ==
    /\ tasks[r].pc = "store"
    /\ tasks'[r].pc = "done"
    /\ now' = now + 1
    /\ call'.op = "upsert"
    /\ call'.item = ListingItem(Val(tasks[r].sent))
    /\ detail_list[r].house_id \in DOMAIN listings'

\* C38: the two counters together never exceed the number of records the store
\* accepted, and every step that increments a counter increments one of them by
\* one and is the step in which the store call of a reference returns without
\* error (the reference is then done, so it is counted once at most).
C38_CountedAfterStoreReturned ==
    /\ [](snapshots_stored + tombstones_created <= AcceptedRecords)
    /\ [][LET stored == snapshots_stored' - snapshots_stored
              tombstones == tombstones_created' - tombstones_created
          IN /\ stored \in {0, 1}
             /\ tombstones \in {0, 1}
             /\ stored + tombstones <= 1
             /\ stored + tombstones = 1 => \E r \in Refs : StoreCallReturned(r)
             /\ \A r \in Refs :
                   tasks[r].pc = "done" => /\ tasks'[r].pc = "done"
                                           /\ tasks'[r].outcome = tasks[r].outcome]_vars

\* a run in which a record was stored, a tombstone was made and a store call raised
C38_Witness ==
    /\ snapshots_stored >= 1
    /\ tombstones_created >= 1
    /\ \E r \in Refs : tasks[r].outcome = "store_error"

\* the credential the cookie manager holds
CurrentCredential == IF IsNone(cookie_data) THEN None ELSE Some(Val(cookie_data).cookie_string)

\* a step in which the detail fetch of reference r starts
FetchStarts(r) == tasks[r].pc # "fetch" /\ tasks'[r].pc = "fetch"

\* C34: every detail fetch is started with a Cookie header that equals the cookie
\* manager's current credential, also after an IP block has led to a refresh.
C34_FetchSendsCurrentCredential ==
    [][\A r \in Refs : FetchStarts(r) => client_cookie = CurrentCredential]_vars

----------------------------------------------------------------------------
(* Properties of the update-mode run and the queue (SpecUpdate) *)

\* the references of the run whose detail fetch was answered with the captcha page
IpBlocked == {r \in Refs : tasks[r].html = Some(CaptchaPage)}

\* C36: once manage_active_listings has run after an update-mode run, every listing
\* that was claimed from the queue and whose detail fetch was IP-blocked has a latest
\* snapshot status that reads as available and is in the queue again.
C36_IpBlockedListingIsRequeued ==
    call.op = "manage" =>
        \A r \in IpBlocked :
            LET id == detail_list[r].house_id
            IN /\ AddWhere(CurrentStatus(listings, snapshots, id))
               /\ id \in DOMAIN active

====
